---- MODULE Spec2Model ----
(***************************************************************************)
(* The safety-gated execution pipeline of src/freeCAD: the command         *)
(* translator (static validator), the safety rules and safety validator,   *)
(* the rollback manager, the operation executor and the orchestrating      *)
(* FreeCADLLMFramework.execute_command.                                    *)
(***************************************************************************)
EXTENDS Integers, Sequences, FiniteSets, TLC

(***************************************************************************)
(* Bounds of the model.                                                    *)
(***************************************************************************)
\* longest explicitly enumerated part of a candidate batch
MaxPrefix == 2
\* commands are run live while the execution history is shorter than this
MaxRuns == 2

(***************************************************************************)
(* Program constants.                                                      *)
(***************************************************************************)
READ == 1
MODIFY == 2
CREATE == 3
DELETE == 4
PermissionLevel == {READ, MODIFY, CREATE, DELETE}

MAX_OPERATIONS_PER_BATCH == 50
MAX_DELETE_OBJECTS == 10

STRUCTURAL_ELEMENT_TYPES ==
    {"Arch::Wall", "Arch::Structure", "Arch::Floor", "Arch::Building",
     "Arch::Foundation", "Arch::Rebar"}

ALLOWED_MODULES ==
    {"FreeCAD", "Part", "Arch", "Draft", "Sketcher", "PartDesign",
     "Mesh", "MeshPart", "Drawing", "Spreadsheet"}

FORBIDDEN_FUNCTIONS ==
    {"eval", "exec", "compile", "__import__", "open", "input",
     "file", "execfile", "reload", "globals", "locals", "vars",
     "dir", "help", "quit", "exit", "copyright", "credits", "license"}

FORBIDDEN_MODULES ==
    {"os", "sys", "subprocess", "shutil", "socket", "urllib",
     "pickle", "shelve", "marshal", "imp", "importlib"}

\* the rules SafetyRules._initialize_rules seeds, with their default
\* enablement in STRICT mode (every built-in rule is enabled)
BuiltinRules ==
    {"no_delete_load_bearing", "no_break_dependencies", "no_floating_objects",
     "require_delete_confirmation", "maintain_version_history",
     "validate_file_integrity", "no_mass_delete",
     "limit_operation_complexity", "timeout_protection",
     "rollback_capability", "require_permission_elevation",
     "audit_all_operations"}

_initialize_rules == [r \in BuiltinRules |-> TRUE]

(***************************************************************************)
(* Candidate code.  A piece of code is named by its source text; CodeTable *)
(* gives what ast.parse, ast.walk, the substring tests of the validator    *)
(* and exec see of it:                                                     *)
(*   syntax_ok     ast.parse does not raise SyntaxError                    *)
(*   calls         the ast.Call nodes: the shape of node.func, the name    *)
(*                 _get_function_name extracts, the literal first argument *)
(*   imports       alias.name of every alias of every ast.Import           *)
(*   from_imports  node.module of every ast.ImportFrom                     *)
(*   lexemes       the pieces of the text the substring tests can hit      *)
(*   effect        what exec of the code does to the document              *)
(***************************************************************************)
NoArg == "<none>"

Call(func, name, arg) == [func |-> func, name |-> name, arg |-> arg]

Code(ok, calls, imports, froms, lexemes, effect) ==
    [syntax_ok |-> ok, calls |-> calls, imports |-> imports,
     from_imports |-> froms, lexemes |-> lexemes, effect |-> effect]

cMakeWall   == "wall = Arch.makeWall(length=4000)"
cMakeBox    == "box = Part.makeBox(100, 100, 100)"
cMakeWindow == "window = Arch.makeWindow(wall)"
cRemoveBox  == "doc.removeObject('box')"
cRemoveWall == "doc.removeObject('wall')"
cFilterWall == "walls = [obj for obj in doc.Objects if obj.TypeId == 'Arch::Wall']"
cQuery      == "n = len(doc.Objects)"
cExec       == "exec('print(1)')"
cImportOs   == "import os"
cImportOsPath == "import os.path"
cFromOs     == "from os import path"
cImportNumpy == "import numpy"
cSyntaxErr  == "wall = Arch.makeWall("
cDivZero    == "x = 1 / 0"

Codes ==
    {cMakeWall, cMakeBox, cMakeWindow, cRemoveBox, cRemoveWall, cFilterWall,
     cQuery, cExec, cImportOs, cImportOsPath, cFromOs, cImportNumpy,
     cSyntaxErr, cDivZero}

CodeTable ==
    [c \in Codes |->
       CASE c = cMakeWall ->
              Code(TRUE, {Call("Attribute", "makeWall", NoArg)}, {}, {},
                   {"wall", "Arch", "makeWall"}, <<"add", "wall">>)
         [] c = cMakeBox ->
              Code(TRUE, {Call("Attribute", "makeBox", NoArg)}, {}, {},
                   {"box", "Part", "makeBox"}, <<"add", "box">>)
         [] c = cMakeWindow ->
              Code(TRUE, {Call("Attribute", "makeWindow", NoArg)}, {}, {},
                   {"window", "Arch", "makeWindow", "wall"}, <<"add", "window">>)
         [] c = cRemoveBox ->
              Code(TRUE, {Call("Attribute", "removeObject", "box")}, {}, {},
                   {"doc", "removeObject", "box"}, <<"remove", "box">>)
         [] c = cRemoveWall ->
              Code(TRUE, {Call("Attribute", "removeObject", "wall")}, {}, {},
                   {"doc", "removeObject", "wall"}, <<"remove", "wall">>)
         [] c = cFilterWall ->
              Code(TRUE, {}, {}, {},
                   {"walls", "obj", "doc", "Objects", "TypeId", "Arch::Wall"},
                   <<"none", "">>)
         [] c = cQuery ->
              Code(TRUE, {Call("Name", "len", NoArg)}, {}, {},
                   {"n", "len", "doc", "Objects"}, <<"none", "">>)
         [] c = cExec ->
              Code(TRUE, {Call("Name", "exec", "print(1)")}, {}, {},
                   {"exec", "print"}, <<"raise", "">>)
         [] c = cImportOs ->
              Code(TRUE, {}, {"os"}, {}, {"import", "os"}, <<"raise", "">>)
         [] c = cImportOsPath ->
              Code(TRUE, {}, {"os.path"}, {}, {"import", "os.path"},
                   <<"raise", "">>)
         [] c = cFromOs ->
              Code(TRUE, {}, {}, {"os"}, {"from", "os", "import", "path"},
                   <<"raise", "">>)
         [] c = cImportNumpy ->
              Code(TRUE, {}, {"numpy"}, {}, {"import", "numpy"},
                   <<"raise", "">>)
         [] c = cSyntaxErr ->
              Code(FALSE, {}, {}, {}, {"wall", "Arch", "makeWall"},
                   <<"raise", "">>)
         [] c = cDivZero ->
              Code(TRUE, {}, {}, {}, {"x"}, <<"raise", "">>)]

(***************************************************************************)
(* CommandTranslator (core/command_translator.py).                         *)
(***************************************************************************)
\* _get_function_name: the id of a Name, the attr of an Attribute, else None
NoName == "<None>"
_get_function_name(call) ==
    IF call.func \in {"Name", "Attribute"} THEN call.name ELSE NoName

\* a finite set as a sequence, in some fixed order
RECURSIVE SetToSeq(_)
SetToSeq(S) ==
    IF S = {} THEN <<>>
    ELSE LET e == CHOOSE v \in S : TRUE IN <<e>> \o SetToSeq(S \ {e})

\* the errors _validate_code_ast collects while walking the tree
AstErrors(code) ==
    LET t == CodeTable[code] IN
      SetToSeq({<<"Forbidden function call", _get_function_name(c)>> :
          c \in {k \in t.calls : _get_function_name(k) \in FORBIDDEN_FUNCTIONS}})
      \o SetToSeq({<<"Forbidden module import", m>> :
              m \in (t.imports \cup t.from_imports) \cap FORBIDDEN_MODULES})

\* the non-blocking warnings of _validate_code_ast
AstWarnings(code) ==
    LET t == CodeTable[code] IN
      {<<"Unrecognized module", m>> :
          m \in (t.imports \cup t.from_imports)
                  \ (FORBIDDEN_MODULES \cup ALLOWED_MODULES)}

_validate_code_ast(code) ==
    IF ~CodeTable[code].syntax_ok
      THEN [valid |-> FALSE, errors |-> << <<"Syntax error in code", code>> >>,
            warnings |-> {}]
    ELSE IF AstErrors(code) # <<>>
      THEN [valid |-> FALSE, errors |-> AstErrors(code), warnings |-> {}]
    ELSE [valid |-> TRUE, errors |-> <<>>, warnings |-> AstWarnings(code)]

(***************************************************************************)
(* A candidate operation as the translator collaborator hands it over:     *)
(* the four fields, and the set of those fields that are absent.           *)
(***************************************************************************)
RawOp(code, description, type, affected, missing) ==
    [code |-> code, description |-> description, type |-> type,
     affected_objects |-> affected, missing |-> missing]

required_fields == <<"code", "description", "type", "affected_objects">>
valid_types == {"create", "modify", "delete", "query"}

\* a validated operation (the parsed tree is CodeTable[code])
ValidatedOp(op) ==
    [code |-> op.code, description |-> op.description, type |-> op.type,
     affected_objects |-> op.affected_objects]

\* variant of _validate_operation that accepts any declared type
_validate_operation_any_type(op) ==
    LET missing == SelectSeq(required_fields, LAMBDA f : f \in op.missing)
        ast == _validate_code_ast(op.code)
    IN  IF missing # <<>>
          THEN [valid |-> FALSE,
                errors |-> [i \in 1..Len(missing) |->
                              <<"Operation missing required field", missing[i]>>]]
        ELSE IF ~ast.valid
          THEN [valid |-> FALSE, errors |-> ast.errors]
        ELSE [valid |-> TRUE, errors |-> <<>>]

_validate_operation(op) ==
    LET missing == SelectSeq(required_fields, LAMBDA f : f \in op.missing)
        ast == _validate_code_ast(op.code)
    IN  IF missing # <<>>
          THEN [valid |-> FALSE,
                errors |-> [i \in 1..Len(missing) |->
                              <<"Operation missing required field", missing[i]>>]]
        ELSE IF ~ast.valid
          THEN [valid |-> FALSE, errors |-> ast.errors]
        ELSE IF op.type \notin valid_types
          THEN [valid |-> FALSE,
                errors |-> << <<"Invalid operation type", op.type>> >>]
        ELSE [valid |-> TRUE, errors |-> <<>>]

(***************************************************************************)
(* A candidate batch (the LLM response).  shape tells which of the        *)
(* structural cases of validate_and_parse / _validate_structure it is.     *)
(***************************************************************************)
Shapes ==
    {"ok", "error", "missing_operations", "missing_imports",
     "operations_not_list", "imports_not_list"}

RawCommand(shape, ops, rc) ==
    [shape |-> shape, operations |-> ops, requires_confirmation |-> rc]

\* the errors of _validate_structure; <<>> when it returns True
_validate_structure(response) ==
    CASE response.shape = "missing_operations" ->
           << <<"Missing required field", "operations">> >>
      [] response.shape = "missing_imports" ->
           << <<"Missing required field", "imports">> >>
      [] response.shape = "operations_not_list" ->
           << <<"'operations' must be a list", "">> >>
      [] response.shape = "imports_not_list" ->
           << <<"'imports' must be a list", "">> >>
      [] OTHER -> <<>>

\* variant of Flatten that collects nothing
Flatten_none(ss) == <<>>

RECURSIVE Flatten(_)
Flatten(ss) == IF ss = <<>> THEN <<>> ELSE Head(ss) \o Flatten(Tail(ss))

InvalidCommand(errors) ==
    [valid |-> FALSE, errors |-> errors, operations |-> <<>>,
     requires_confirmation |-> FALSE]

\* variant of validate_and_parse that keeps every operation of a well-formed
\* batch, whatever _validate_operation says of it
validate_and_parse_keep_all(response) ==
    LET ops == response.operations
        results == [i \in 1..Len(ops) |-> _validate_operation(ops[i])]
        op_errors == Flatten([i \in 1..Len(ops) |-> results[i].errors])
    IN  IF response.shape = "error"
          THEN InvalidCommand(<< <<"error", "translator failed">> >>)
        ELSE IF _validate_structure(response) # <<>>
          THEN InvalidCommand(_validate_structure(response))
        ELSE [valid |-> TRUE,
              errors |-> <<>>,
              operations |-> [i \in 1..Len(ops) |-> ValidatedOp(ops[i])],
              requires_confirmation |-> response.requires_confirmation]

validate_and_parse(response) ==
    LET ops == response.operations
        results == [i \in 1..Len(ops) |-> _validate_operation(ops[i])]
        op_errors == Flatten([i \in 1..Len(ops) |-> results[i].errors])
        kept == SelectSeq([i \in 1..Len(ops) |-> i], LAMBDA i : results[i].valid)
        validated_operations == [k \in 1..Len(kept) |-> ValidatedOp(ops[kept[k]])]
    IN  IF response.shape = "error"
          THEN InvalidCommand(<< <<"error", "translator failed">> >>)
        ELSE IF _validate_structure(response) # <<>>
          THEN InvalidCommand(_validate_structure(response))
        ELSE IF validated_operations = <<>> /\ ops # <<>>
          THEN InvalidCommand(IF op_errors # <<>> THEN op_errors
                              ELSE << <<"No valid operations found", "">> >>)
        ELSE [valid |-> TRUE,
              errors |-> <<>>,
              operations |-> validated_operations,
              requires_confirmation |-> response.requires_confirmation]

(***************************************************************************)
(* The document host.  A loaded document is the set of its objects' names; *)
(* OutList gives, for an object, the objects it depends on.                *)
(***************************************************************************)
Windows == {"window", "window2", "window3", "window4", "window5", "window6"}
Objects == {"wall", "box"} \cup Windows
Doc(objects) == [loaded |-> TRUE, objects |-> objects]
NoDocument == [loaded |-> FALSE, objects |-> {}]

StaticOutList == [o \in Objects |-> IF o \in Windows THEN {"wall"} ELSE {}]
OutList(document, o) == StaticOutList[o] \cap document.objects

\* variant of is_loaded that reports a document whether or not one is loaded
is_loaded_always(document) == TRUE

\* FreeCADFileParser.is_loaded
is_loaded(document) == document.loaded

\* FreeCADFileParser.get_objects
get_objects(document) == IF ~document.loaded THEN {} ELSE document.objects

(***************************************************************************)
(* SafetyRules (safety/rules.py).  rules maps each built-in rule name to   *)
(* its enabled flag; custom_rules is the list of added rules.              *)
(***************************************************************************)
NoRule == [name |-> "<None>", enabled |-> FALSE, found |-> FALSE]

\* variant of get_rule that looks among the built-in rules only
get_rule_builtin_only(rules, custom_rules, rule_name) ==
    IF rule_name \in DOMAIN rules
      THEN [name |-> rule_name, enabled |-> rules[rule_name], found |-> TRUE]
    ELSE [name |-> "<None>", enabled |-> FALSE, found |-> FALSE]

\* get_rule: the built-in rule of that name, else the first custom rule
get_rule(rules, custom_rules, rule_name) ==
    IF rule_name \in DOMAIN rules
      THEN [name |-> rule_name, enabled |-> rules[rule_name], found |-> TRUE]
    ELSE IF \E i \in 1..Len(custom_rules) : custom_rules[i].name = rule_name
      THEN LET i == CHOOSE k \in 1..Len(custom_rules) :
                      /\ custom_rules[k].name = rule_name
                      /\ \A j \in 1..(k-1) : custom_rules[j].name # rule_name
           IN [name |-> rule_name, enabled |-> custom_rules[i].enabled,
               found |-> TRUE]
    ELSE NoRule

is_rule_enabled(rules, custom_rules, rule_name) ==
    LET rule == get_rule(rules, custom_rules, rule_name)
    IN  IF rule.found THEN rule.enabled ELSE FALSE

\* variant of get_permission_level_for_operation: every type needs READ only
get_permission_level_read(operation_type) == READ

get_permission_level_for_operation(operation_type) ==
    CASE operation_type = "query"  -> READ
      [] operation_type = "modify" -> MODIFY
      [] operation_type = "create" -> CREATE
      [] operation_type = "delete" -> DELETE
      [] OTHER -> READ

\* variant of check_operation_complexity that rejects a batch of exactly
\* MAX_OPERATIONS_PER_BATCH operations
check_operation_complexity_at_cap(rules, custom_rules, num_operations) ==
    IF "limit_operation_complexity" \in DOMAIN rules
       /\ ~rules["limit_operation_complexity"]
      THEN TRUE
    ELSE ~(num_operations >= MAX_OPERATIONS_PER_BATCH)

\* check_operation_complexity: is_valid
check_operation_complexity(rules, custom_rules, num_operations) ==
    IF ~is_rule_enabled(rules, custom_rules, "limit_operation_complexity")
      THEN TRUE
    ELSE ~(num_operations > MAX_OPERATIONS_PER_BATCH)

\* variant of check_mass_delete that never objects
check_mass_delete_unlimited(rules, custom_rules, num_objects) == TRUE

\* check_mass_delete: is_valid
check_mass_delete(rules, custom_rules, num_objects) ==
    IF ~is_rule_enabled(rules, custom_rules, "no_mass_delete")
      THEN TRUE
    ELSE ~(num_objects > MAX_DELETE_OBJECTS)

(***************************************************************************)
(* SafetyValidator (safety/validator.py).  A validator state v is          *)
(* [rules, custom_rules, current_permission, document].                    *)
(***************************************************************************)
\* ValidationViolation: about is the operation or object the message names,
\* n the count the message gives
ValidationViolation(rule_name, severity, about, n, blocked) ==
    [rule |-> rule_name, severity |-> severity, about |-> about, n |-> n,
     blocked |-> blocked]

RECURSIVE SumSeq(_)
SumSeq(ns) == IF ns = <<>> THEN 0 ELSE Head(ns) + SumSeq(Tail(ns))

\* variant of delete_ops that takes every operation for a delete
delete_ops_any_type(operations) == operations

\* the delete-typed operations of the batch
delete_ops(operations) == SelectSeq(operations, LAMBDA op : op.type = "delete")

_check_operation_complexity(v, operations) ==
    IF ~is_rule_enabled(v.rules, v.custom_rules, "limit_operation_complexity")
      THEN <<>>
    ELSE IF ~check_operation_complexity(v.rules, v.custom_rules, Len(operations))
      THEN << ValidationViolation("limit_operation_complexity", "error", "",
                                  Len(operations), TRUE) >>
    ELSE <<>>

_check_permissions(v, operations) ==
    IF ~is_rule_enabled(v.rules, v.custom_rules, "require_permission_elevation")
      THEN <<>>
    ELSE LET denied ==
               SelectSeq(operations,
                 LAMBDA op : get_permission_level_for_operation(op.type)
                               > v.current_permission)
         IN [i \in 1..Len(denied) |->
               ValidationViolation("require_permission_elevation", "error",
                 denied[i].description,
                 get_permission_level_for_operation(denied[i].type), TRUE)]

\* variant of _check_data_safety that asks for no confirmation of an
\* unconfirmed delete and reports a confirmed one
_check_data_safety_confirmed(v, operations, confirmed) ==
    LET dels == delete_ops(operations)
    IN  IF dels # <<>> /\ confirmed
             /\ is_rule_enabled(v.rules, v.custom_rules,
                                "require_delete_confirmation")
          THEN << ValidationViolation("require_delete_confirmation", "error",
                                      "", Len(dels), TRUE) >>
        ELSE <<>>

_check_data_safety(v, operations, confirmed) ==
    LET dels == delete_ops(operations)
        total_affected ==
            SumSeq([i \in 1..Len(dels) |-> Len(dels[i].affected_objects)])
        confirmation ==
            IF /\ is_rule_enabled(v.rules, v.custom_rules,
                                  "require_delete_confirmation")
               /\ ~confirmed
              THEN << ValidationViolation("require_delete_confirmation", "error",
                                          "", Len(dels), TRUE) >>
            ELSE <<>>
        mass ==
            IF /\ total_affected > 0
               /\ ~check_mass_delete(v.rules, v.custom_rules, total_affected)
               /\ ~confirmed
              THEN << ValidationViolation("no_mass_delete", "error", "",
                                          total_affected, TRUE) >>
            ELSE <<>>
    IN  IF dels = <<>> THEN <<>> ELSE confirmation \o mass

\* what the substring tests of _is_deleting_structural_elements find in one
\* lexeme of the code: in the text as written, and in the lowercased text
Substrings(lexeme) ==
    IF lexeme \in STRUCTURAL_ELEMENT_TYPES THEN {lexeme} ELSE {}

LowerSubstrings(lexeme) ==
    CASE lexeme \in {"wall", "walls", "makeWall", "Arch::Wall"} -> {"wall"}
      [] lexeme = "removeObject" -> {"removeobject"}
      [] lexeme = "delete" -> {"delete"}
      [] OTHER -> {}

structural_keywords == {"wall", "column", "beam", "foundation", "structural"}

_is_deleting_structural_elements(code) ==
    LET lex == CodeTable[code].lexemes
        in_code == UNION {Substrings(l) : l \in lex}
        in_code_lower == UNION {LowerSubstrings(l) : l \in lex}
    IN  \/ in_code \cap STRUCTURAL_ELEMENT_TYPES # {}
        \/ /\ ("removeobject" \in in_code_lower \/ "delete" \in in_code_lower)
           /\ in_code_lower \cap structural_keywords # {}

\* variant of _analyze_delete_operation that returns the declared
\* affected_objects as they are, an empty list included
_analyze_delete_operation_declared(operation) == operation.affected_objects

_analyze_delete_operation(operation) ==
    LET affected == operation.affected_objects
        identifiers ==
            SetToSeq({c.arg : c \in {k \in CodeTable[operation.code].calls :
                                       /\ k.func = "Attribute"
                                       /\ k.name \in {"removeObject", "delete"}
                                       /\ k.arg # NoArg}})
    IN  IF affected # <<>> /\ affected # <<"all_walls">> THEN affected
        ELSE IF ~CodeTable[operation.code].syntax_ok THEN <<"unknown">>
        ELSE IF identifiers # <<>> THEN identifiers
        ELSE <<"unknown">>

_check_load_bearing_deletion(v, operations) ==
    LET hit == SelectSeq(delete_ops(operations),
                 LAMBDA op : /\ _analyze_delete_operation(op) # <<>>
                             /\ _is_deleting_structural_elements(op.code))
    IN  [i \in 1..Len(hit) |->
           ValidationViolation("no_delete_load_bearing", "error",
                               hit[i].description, 0, TRUE)]

\* the objects of the document that list obj_name as a dependency
dependents(document, obj_name) ==
    {o \in get_objects(document) : obj_name \in OutList(document, o)}

\* the message names dependents[:5]
MAX_NAMED_DEPENDENTS == 5

\* the number of dependents the message of a finding names
named_dependents(document, obj_name) ==
    IF Cardinality(dependents(document, obj_name)) > MAX_NAMED_DEPENDENTS
      THEN MAX_NAMED_DEPENDENTS
    ELSE Cardinality(dependents(document, obj_name))

\* the delete targets of the batch that live objects depend on
broken_targets(v, operations) ==
    SelectSeq(Flatten([i \in 1..Len(delete_ops(operations)) |->
                  _analyze_delete_operation(delete_ops(operations)[i])]),
              LAMBDA t : dependents(v.document, t) # {})

\* variant of _check_dependency_violations whose findings block
_check_dependency_violations_blocking(v, operations) ==
    [i \in 1..Len(broken_targets(v, operations)) |->
       ValidationViolation("no_break_dependencies", "error",
                           broken_targets(v, operations)[i],
                           named_dependents(v.document,
                                            broken_targets(v, operations)[i]),
                           TRUE)]

\* the findings carry the target (about) and the number of dependents named (n)
_check_dependency_violations(v, operations) ==
    [i \in 1..Len(broken_targets(v, operations)) |->
       ValidationViolation("no_break_dependencies", "warning",
                           broken_targets(v, operations)[i],
                           named_dependents(v.document,
                                            broken_targets(v, operations)[i]),
                           FALSE)]

_check_structural_safety(v, operations) ==
    IF ~is_loaded(v.document) THEN <<>>
    ELSE (IF is_rule_enabled(v.rules, v.custom_rules, "no_delete_load_bearing")
            THEN _check_load_bearing_deletion(v, operations) ELSE <<>>)
         \o
         (IF is_rule_enabled(v.rules, v.custom_rules, "no_break_dependencies")
            THEN _check_dependency_violations(v, operations) ELSE <<>>)

\* variant of Violations that stops at the first check that reports something
Violations_first_only(v, validated_command, confirmed) ==
    LET operations == validated_command.operations IN
      IF ~validated_command.valid THEN <<>>
      ELSE IF _check_operation_complexity(v, operations) # <<>>
        THEN _check_operation_complexity(v, operations)
      ELSE IF _check_permissions(v, operations) # <<>>
        THEN _check_permissions(v, operations)
      ELSE IF _check_data_safety(v, operations, confirmed) # <<>>
        THEN _check_data_safety(v, operations, confirmed)
      ELSE IF is_loaded(v.document)
        THEN _check_structural_safety(v, operations)
      ELSE <<>>

\* self.violations as validate_command leaves it
Violations(v, validated_command, confirmed) ==
    IF ~validated_command.valid THEN <<>>
    ELSE LET operations == validated_command.operations IN
           _check_operation_complexity(v, operations)
           \o _check_permissions(v, operations)
           \o _check_data_safety(v, operations, confirmed)
           \o (IF is_loaded(v.document)
                 THEN _check_structural_safety(v, operations) ELSE <<>>)

\* variant of validate_command that reports the declared requires_confirmation
\* whatever the caller confirmed
validate_command_declared(v, validated_command, confirmed) ==
    IF ~validated_command.valid
      THEN [safe |-> FALSE,
            violations |-> << ValidationViolation("invalid_command", "error",
                                                  "", 0, TRUE) >>,
            warnings |-> <<>>,
            requires_confirmation |-> FALSE,
            has_all_fields |-> FALSE]
    ELSE [safe |-> \A i \in 1..Len(Violations(v, validated_command, confirmed)) :
                      ~Violations(v, validated_command, confirmed)[i].blocked,
          violations |-> SelectSeq(Violations(v, validated_command, confirmed),
                                   LAMBDA x : x.blocked),
          warnings |-> SelectSeq(Violations(v, validated_command, confirmed),
                                 LAMBDA x : ~x.blocked),
          requires_confirmation |-> validated_command.requires_confirmation,
          has_all_fields |-> TRUE]

\* the result of validate_command; the early return for an invalid command
\* carries neither warnings nor requires_confirmation (has_all_fields)
validate_command(v, validated_command, confirmed) ==
    IF ~validated_command.valid
      THEN [safe |-> FALSE,
            violations |-> << ValidationViolation("invalid_command", "error",
                                                  "", 0, TRUE) >>,
            warnings |-> <<>>,
            requires_confirmation |-> FALSE,
            has_all_fields |-> FALSE]
    ELSE LET all == Violations(v, validated_command, confirmed)
             blocking_violations == SelectSeq(all, LAMBDA x : x.blocked)
             warnings == SelectSeq(all, LAMBDA x : ~x.blocked)
         IN [safe |-> Len(blocking_violations) = 0,
             violations |-> blocking_violations,
             warnings |-> warnings,
             requires_confirmation |->
                 validated_command.requires_confirmation /\ ~confirmed,
             has_all_fields |-> TRUE]

\* SafetyValidator.get_violations_summary: whether the summary is the text
\* "No safety violations", and the numbers its two headings give
get_violations_summary(self_violations) ==
    [none |-> self_violations = <<>>,
     blocking |-> Len(SelectSeq(self_violations, LAMBDA x : x.blocked)),
     warnings |-> Len(SelectSeq(self_violations, LAMBDA x : ~x.blocked))]

(***************************************************************************)
(* OperationExecutor (core/executor.py).                                   *)
(***************************************************************************)
\* ExecutionResult; executed_count and total_count are the entries of data
\* (-1: data has no such entry)
ExecutionResult(success, message, error, executed_count, total_count) ==
    [success |-> success, message |-> message, error |-> error,
     executed_count |-> executed_count, total_count |-> total_count]

NoResult == ExecutionResult(FALSE, "<not called>", "", -1, -1)

\* exec(code, namespace): whether it returns normally, and the document after
ExecCode(document, code) ==
    LET e == CodeTable[code].effect IN
      CASE e[1] = "add" ->
             [success |-> TRUE, document |-> Doc(document.objects \cup {e[2]})]
        [] e[1] = "remove" ->
             IF e[2] \in document.objects
               THEN [success |-> TRUE,
                     document |-> Doc(document.objects \ {e[2]})]
             ELSE [success |-> FALSE, document |-> document]
        [] e[1] = "none" -> [success |-> TRUE, document |-> document]
        [] OTHER -> [success |-> FALSE, document |-> document]

\* _execute_single_operation: the operation's success flag and the document
_execute_single_operation(document, operation) == ExecCode(document, operation.code)

\* variant of the loop that never makes the elapsed-time check
RECURSIVE RunLoop_unchecked(_, _, _, _, _)
RunLoop_unchecked(document, operations, i, timeout_before, results) ==
    IF i > Len(operations)
      THEN [document |-> document, results |-> results, timed_out |-> FALSE]
    ELSE LET r == ExecCode(document, operations[i].code)
         IN RunLoop_unchecked(r.document, operations, i + 1, timeout_before,
                              Append(results, r.success))

\* variant of the loop that gives up the batch at the first failing operation
RECURSIVE RunLoop_abort_on_failure(_, _, _, _, _)
RunLoop_abort_on_failure(document, operations, i, timeout_before, results) ==
    IF i > Len(operations)
      THEN [document |-> document, results |-> results, timed_out |-> FALSE]
    ELSE IF i = timeout_before
      THEN [document |-> document, results |-> results, timed_out |-> TRUE]
    ELSE LET r == ExecCode(document, operations[i].code)
         IN IF r.success
              THEN RunLoop_abort_on_failure(r.document, operations, i + 1,
                                            timeout_before,
                                            Append(results, r.success))
            ELSE [document |-> document, results |-> Append(results, FALSE),
                  timed_out |-> FALSE]

\* the loop of execute_operations from operation i on; timeout_before = k > 0
\* means the elapsed-time check before operation k is the first that fails
RECURSIVE RunLoop(_, _, _, _, _)
RunLoop(document, operations, i, timeout_before, results) ==
    IF i > Len(operations)
      THEN [document |-> document, results |-> results, timed_out |-> FALSE]
    ELSE IF i = timeout_before
      THEN [document |-> document, results |-> results, timed_out |-> TRUE]
    ELSE LET r == _execute_single_operation(document, operations[i])
         IN RunLoop(r.document, operations, i + 1, timeout_before,
                    Append(results, r.success))

\* variant of Count that counts every result
Count_every(flags) == Len(flags)

Count(flags) == Len(SelectSeq(flags, LAMBDA b : b))

MAX_HISTORY == 100

\* variant of _log_execution that keeps the oldest entries when over the cap
_log_execution_keep_oldest(execution_history, command, results) ==
    LET h == Append(execution_history,
                    [operations_count |-> Len(command.operations),
                     success_count |-> Count(results),
                     failure_count |-> Len(results) - Count(results),
                     operations |-> results])
    IN  IF Len(h) > MAX_HISTORY THEN SubSeq(h, 1, MAX_HISTORY) ELSE h

\* _log_execution: the history with the entry of this run appended
_log_execution(execution_history, command, results) ==
    LET log_entry ==
          [operations_count |-> Len(command.operations),
           success_count |-> Count(results),
           failure_count |-> Len(results) - Count(results),
           operations |->
               [i \in 1..Len(command.operations) |->
                   IF i <= Len(results) THEN results[i] ELSE FALSE]]
        h == Append(execution_history, log_entry)
    IN  IF Len(h) > MAX_HISTORY
          THEN SubSeq(h, Len(h) - MAX_HISTORY + 1, Len(h))
        ELSE h

\* clear_history
clear_history == <<>>

\* execute_operations: the result, the document and the history after it, the
\* codes handed to exec, and the number of recompute calls
execute_operations(document, execution_history, validated_command, dry_run, timeout_before) ==
    LET operations == validated_command.operations
        unchanged(res) ==
            [result |-> res, document |-> document,
             execution_history |-> execution_history, ran |-> <<>>,
             results |-> <<>>, recomputes |-> 0]
    IN  IF ~validated_command.valid
          THEN unchanged(ExecutionResult(FALSE, "Cannot execute invalid command",
                                         "Command validation failed", -1, -1))
        ELSE IF ~is_loaded(document)
          THEN unchanged(ExecutionResult(FALSE, "No FreeCAD document loaded",
                                         "Document not loaded", -1, -1))
        ELSE IF operations = <<>>
          THEN unchanged(ExecutionResult(FALSE, "No operations to execute",
                                         "Empty operations list", -1, -1))
        ELSE IF dry_run
          THEN unchanged(ExecutionResult(TRUE, "Dry run", "", -1, -1))
        ELSE LET run == RunLoop(document, operations, 1, timeout_before, <<>>)
                 executed_count == Count(run.results)
                 all_success == executed_count = Len(run.results)
                 ran == [i \in 1..Len(run.results) |-> operations[i].code]
             IN IF run.timed_out
                  THEN [result |-> ExecutionResult(FALSE, "Execution timeout",
                                     "Execution timeout", executed_count, -1),
                        document |-> run.document,
                        execution_history |-> execution_history,
                        ran |-> ran, results |-> <<>>, recomputes |-> 0]
                ELSE [result |->
                        ExecutionResult(all_success,
                          IF all_success THEN "Successfully executed"
                          ELSE IF executed_count > 0 THEN "Partially executed"
                          ELSE "Failed to execute operations",
                          "", executed_count, Len(operations)),
                      document |-> run.document,
                      execution_history |->
                          _log_execution(execution_history, validated_command,
                                         run.results),
                      ran |-> ran,
                      results |-> run.results,
                      recomputes |-> IF executed_count > 0 THEN 1 ELSE 0]

(***************************************************************************)
(* RollbackManager (safety/rollback.py).  files is the snapshot storage:   *)
(* what slot n (snapshot_<n>.FCStd) holds, NoFile when it does not exist.  *)
(***************************************************************************)
\* RollbackManager.__init__: max_snapshots
max_snapshots == 2
\* at most this many create_snapshot calls are made on a loaded document
MaxCreated == max_snapshots + 1

Slots == 1..MaxCreated
NoFile == NoDocument

\* variant of Snapshot that drops the description it is given
Snapshot_undescribed(timestamp, description, file_path, operation_count, object_count, saved) ==
    [timestamp |-> timestamp, description |-> "Auto snapshot",
     file_path |-> file_path, operation_count |-> operation_count,
     object_count |-> object_count, saved |-> saved]

\* Snapshot: file_path is the slot; object_count is metadata['object_count'];
\* saved is the document the snapshot was taken of (bookkeeping of the model,
\* the program keeps it only in the file)
Snapshot(timestamp, description, file_path, operation_count, object_count, saved) ==
    [timestamp |-> timestamp, description |-> description,
     file_path |-> file_path, operation_count |-> operation_count,
     object_count |-> object_count, saved |-> saved]

\* variant of _cleanup_old_snapshots that drops the newest entries instead
_cleanup_newest_snapshots(snaps, fs) ==
    IF Len(snaps) <= max_snapshots THEN [snapshots |-> snaps, files |-> fs]
    ELSE [snapshots |-> SubSeq(snaps, 1, max_snapshots),
          files |-> [n \in DOMAIN fs |->
                       IF \E i \in (max_snapshots + 1)..Len(snaps) :
                             snaps[i].file_path = n
                         THEN NoFile ELSE fs[n]]]

\* _cleanup_old_snapshots: pop the oldest and remove its file while over the cap
RECURSIVE _cleanup_old_snapshots(_, _)
_cleanup_old_snapshots(snaps, fs) ==
    IF Len(snaps) > max_snapshots
      THEN _cleanup_old_snapshots(Tail(snaps),
                                  [fs EXCEPT ![Head(snaps).file_path] = NoFile])
    ELSE [snapshots |-> snaps, files |-> fs]

\* variant of NextSlot that starts again at the first slot once the counter
\* has reached the capacity
NextSlotWrapped(counter) == IF counter >= max_snapshots THEN 1 ELSE counter + 1

\* variant of NextSlot that writes every snapshot to the first slot
NextSlotReused(counter) == 1

\* the slot create_snapshot writes to
NextSlot(counter) == counter + 1

\* create_snapshot on rm = [snapshots, snapshot_counter, files]; save_ok tells
\* whether doc.saveAs returns normally
create_snapshot(rm, document, description, save_ok, now) ==
    IF ~is_loaded(document)
      THEN [rm |-> rm, returned |-> FALSE]
    ELSE LET slot == NextSlot(rm.snapshot_counter) IN
         IF ~save_ok
           THEN [rm |-> [rm EXCEPT !.snapshot_counter = slot],
                 returned |-> FALSE]
         ELSE LET snapshot == Snapshot(now, description, slot, Len(rm.snapshots),
                                       Cardinality(get_objects(document)), document)
                  cleaned == _cleanup_old_snapshots(
                                 Append(rm.snapshots, snapshot),
                                 [rm.files EXCEPT ![slot] = document])
              IN [rm |-> [snapshots |-> cleaned.snapshots,
                          snapshot_counter |-> slot,
                          files |-> cleaned.files],
                  returned |-> TRUE]

\* Python list indexing: the 1-based position snapshot_index selects, 0 when
\* it raises IndexError
Position(len, snapshot_index) ==
    IF 0 <= snapshot_index /\ snapshot_index < len THEN snapshot_index + 1
    ELSE IF snapshot_index < 0 /\ -len <= snapshot_index
      THEN len + snapshot_index + 1
    ELSE 0

\* the list rollback_to_snapshot keeps after a successful load
Truncate(snaps, snapshot_index) ==
    IF snapshot_index >= 0 THEN SubSeq(snaps, 1, snapshot_index + 1) ELSE snaps

\* rollback_to_snapshot; load_ok tells whether openDocument returns normally
rollback_to_snapshot(rm, document, snapshot_index, load_ok) ==
    LET pos == Position(Len(rm.snapshots), snapshot_index) IN
      IF rm.snapshots = <<>> \/ pos = 0
        THEN [rm |-> rm, document |-> document, returned |-> FALSE]
      ELSE LET snapshot == rm.snapshots[pos] IN
           IF rm.files[snapshot.file_path] = NoFile \/ ~load_ok
             THEN [rm |-> rm, document |-> NoDocument, returned |-> FALSE]
           ELSE [rm |-> [rm EXCEPT !.snapshots = Truncate(@, snapshot_index)],
                 document |-> rm.files[snapshot.file_path],
                 returned |-> TRUE]

rollback_last_operation(rm, document, load_ok) ==
    IF Len(rm.snapshots) < 2
      THEN [rm |-> rm, document |-> document, returned |-> FALSE]
    ELSE rollback_to_snapshot(rm, document, -2, load_ok)

\* get_snapshot_history: one entry per retained snapshot, with the list index
\* enumerate gives it
get_snapshot_history(rm) ==
    [i \in 1..Len(rm.snapshots) |->
        [index |-> i - 1,
         timestamp |-> rm.snapshots[i].timestamp,
         description |-> rm.snapshots[i].description,
         operation_count |-> rm.snapshots[i].operation_count,
         object_count |-> rm.snapshots[i].object_count]]

\* can_rollback
can_rollback(rm) == Len(rm.snapshots) >= 1

\* clear_snapshots: remove the retained snapshots' files, reset the counter
clear_snapshots(rm) ==
    [snapshots |-> <<>>, snapshot_counter |-> 0,
     files |-> [n \in Slots |->
                  IF \E i \in 1..Len(rm.snapshots) : rm.snapshots[i].file_path = n
                    THEN NoFile ELSE rm.files[n]]]

\* variant of elevate_permission that takes any level
elevate_permission_unchecked(current_permission, new_permission) ==
    new_permission

\* SafetyValidator.elevate_permission: the level afterwards
elevate_permission(current_permission, new_permission) ==
    IF new_permission > current_permission THEN new_permission
    ELSE current_permission

(***************************************************************************)
(* State.                                                                  *)
(***************************************************************************)
VARIABLES
    document,            \* FreeCADFileParser.document
    files,               \* the files of RollbackManager.temp_dir
    snapshots,           \* RollbackManager.snapshots
    snapshot_counter,    \* RollbackManager.snapshot_counter
    clock,               \* create_snapshot calls made on a loaded document
    current_permission,  \* SafetyValidator.current_permission
    rules,               \* SafetyRules.rules: name -> enabled
    custom_rules,        \* SafetyRules.custom_rules
    violations,          \* SafetyValidator.violations
    execution_history,   \* OperationExecutor.execution_history
    request,             \* the call the session's caller is about to make
    last                 \* the last call made on the session and what it returned

vars == <<document, files, snapshots, snapshot_counter, clock,
          current_permission, rules, custom_rules, violations,
          execution_history, request, last>>

rollback_vars == <<files, snapshots, snapshot_counter, clock, request>>
rules_vars == <<rules, custom_rules>>

RM == [snapshots |-> snapshots, snapshot_counter |-> snapshot_counter,
       files |-> files]

V == [rules |-> rules, custom_rules |-> custom_rules,
      current_permission |-> current_permission, document |-> document]

NoRaw == RawCommand("ok", <<>>, FALSE)
NoSafety == [safe |-> FALSE, violations |-> <<>>, warnings |-> <<>>,
             requires_confirmation |-> FALSE, has_all_fields |-> FALSE]

\* the record of a call: its arguments, the state before it, what it returned
NoCall ==
    [call |-> "<none>", raw |-> NoRaw, confirmed |-> FALSE, dry_run |-> FALSE,
     validated |-> InvalidCommand(<<>>), safety |-> NoSafety,
     safety_called |-> FALSE, snapshot_called |-> FALSE,
     snapshot_returned |-> FALSE, executor_called |-> FALSE,
     result |-> NoResult,
     ran |-> <<>>, recomputes |-> 0, arg |-> 0, returned |-> FALSE,
     description |-> "", save_ok |-> FALSE, results |-> <<>>,
     timeout_before |-> 0, rule_name |-> "",
     pre_rules |-> _initialize_rules, pre_custom_rules |-> <<>>,
     pre_document |-> NoDocument, pre_snapshots |-> <<>>,
     pre_permission |-> 0, pre_counter |-> 0, pre_history |-> <<>>]

CallRecord(name) ==
    [NoCall EXCEPT !.call = name, !.pre_document = document,
                   !.pre_snapshots = snapshots,
                   !.pre_permission = current_permission,
                   !.pre_counter = snapshot_counter,
                   !.pre_history = execution_history,
                   !.pre_rules = rules,
                   !.pre_custom_rules = custom_rules]

NoRequest == [raw |-> NoRaw, confirmed |-> FALSE, dry_run |-> FALSE]

Init ==
    /\ request = NoRequest
    /\ document = NoDocument
    /\ files = [n \in Slots |-> NoFile]
    /\ snapshots = <<>>
    /\ snapshot_counter = 0
    /\ clock = 0
    /\ current_permission \in PermissionLevel
    /\ rules = _initialize_rules
    /\ custom_rules = <<>>
    /\ violations = <<>>
    /\ execution_history = <<>>
    /\ last = NoCall

(***************************************************************************)
(* The inputs the actions draw from.                                       *)
(***************************************************************************)
\* all sequences over S of length at most n
SeqsUpTo(S, n) == UNION {[1..k -> S] : k \in 0..n}

names10 == [i \in 1..MAX_DELETE_OBJECTS |-> "box"]

opCreateWall == RawOp(cMakeWall, "Create wall", "create", <<"wall">>, {})
opCreateBox  == RawOp(cMakeBox, "Create box", "create", <<"box">>, {})
opCreateWindow == RawOp(cMakeWindow, "Create window", "create", <<"window">>, {})
opDeleteBox  == RawOp(cRemoveBox, "Delete box", "delete", <<"box">>, {})
opDeleteWall == RawOp(cRemoveWall, "Delete wall", "delete", <<>>, {})
opDeleteAllWalls == RawOp(cFilterWall, "Delete all walls", "delete", <<"all_walls">>, {})
opDeleteWallsUnnamed == RawOp(cFilterWall, "Delete walls", "delete", <<>>, {})
opDelete10   == RawOp(cRemoveBox, "Delete ten", "delete", names10, {})
opModify     == RawOp(cQuery, "Modify", "modify", <<>>, {})
opQuery      == RawOp(cQuery, "Count objects", "query", <<>>, {})
opExec       == RawOp(cExec, "Run exec", "create", <<>>, {})
opImportOs   == RawOp(cImportOs, "Import os", "query", <<>>, {})
opImportOsPath == RawOp(cImportOsPath, "Import os.path", "query", <<>>, {})
opFromOs     == RawOp(cFromOs, "From os import", "query", <<>>, {})
opDivZero    == RawOp(cDivZero, "Divide", "modify", <<>>, {})

opNoCode        == RawOp(cMakeBox, "Create box", "create", <<"box">>, {"code"})
opNoDescription == RawOp(cMakeBox, "Create box", "create", <<"box">>, {"description"})
opNoType        == RawOp(cMakeBox, "Create box", "create", <<"box">>, {"type"})
opNoAffected    == RawOp(cMakeBox, "Create box", "create", <<"box">>, {"affected_objects"})
opBadType       == RawOp(cMakeBox, "Paint box", "paint", <<"box">>, {})
opSyntaxErr     == RawOp(cSyntaxErr, "Create wall", "create", <<"wall">>, {})

\* the candidate batches of the pipeline
PipelineOps == {opCreateBox, opExec}
PipelineBatches ==
    {RawCommand("ok", ops, FALSE) : ops \in SeqsUpTo(PipelineOps, MaxPrefix)}
    \cup {RawCommand("error", <<>>, FALSE)}

\* the validated commands handed to validate_command: a short explicit part
\* followed by pad copies of a query
ValidatorOps ==
    {opCreateWall, opModify, opDeleteAllWalls,
     opDeleteWallsUnnamed, opDelete10}
PadSizes == {0, MAX_OPERATIONS_PER_BATCH - 1}
ValidatorBatches ==
    {RawCommand("ok", ops \o [i \in 1..pad |-> opQuery], rc) :
        ops \in SeqsUpTo(ValidatorOps, MaxPrefix), pad \in PadSizes,
        rc \in {TRUE}}
    \cup {RawCommand("ok", <<opExec>>, FALSE),
          RawCommand("ok", <<opCreateWall>>, FALSE)}

\* the rules the session toggles
ToggledRules ==
    {"limit_operation_complexity", "require_permission_elevation",
     "require_delete_confirmation", "no_mass_delete"}

\* the rule configurations enable_rule and disable_rule lead to that the
\* validator is started in: at most one of the toggled rules disabled
RuleConfigs ==
    {_initialize_rules}
    \cup {[_initialize_rules EXCEPT ![r] = FALSE] : r \in ToggledRules}

\* the documents load_file can open
UserFiles == {Doc({}), Doc({"wall", "window"})}

(***************************************************************************)
(* Actions: one per operation of the session.                              *)
(***************************************************************************)
\* FreeCADLLMFramework.create_new_document
CreateNewDocument ==
    /\ document' = Doc({})
    /\ last' = [CallRecord("create_new_document") EXCEPT !.returned = TRUE]
    /\ UNCHANGED <<rollback_vars, current_permission, rules_vars, violations,
                   execution_history>>

\* FreeCADLLMFramework.load_file
LoadFile(d) ==
    /\ document' = d
    /\ last' = [CallRecord("load_file") EXCEPT !.returned = TRUE]
    /\ UNCHANGED <<rollback_vars, current_permission, rules_vars, violations,
                   execution_history>>

\* FreeCADFileParser.close_document
CloseDocument ==
    /\ document' = NoDocument
    /\ last' = CallRecord("close_document")
    /\ UNCHANGED <<rollback_vars, current_permission, rules_vars, violations,
                   execution_history>>

\* SafetyValidator.elevate_permission
ElevatePermission(new_permission) ==
    /\ current_permission' = elevate_permission(current_permission, new_permission)
    /\ last' = [CallRecord("elevate_permission") EXCEPT !.arg = new_permission]
    /\ UNCHANGED <<document, rollback_vars, rules_vars, violations,
                   execution_history>>

\* SafetyRules.enable_rule / disable_rule
SetRule(rule_name, enabled) ==
    /\ rules' = IF rule_name \in DOMAIN rules
                  THEN [rules EXCEPT ![rule_name] = enabled] ELSE rules
    /\ custom_rules' =
         IF rule_name \notin DOMAIN rules
           THEN [i \in 1..Len(custom_rules) |->
                   IF /\ custom_rules[i].name = rule_name
                      /\ \A j \in 1..(i-1) : custom_rules[j].name # rule_name
                     THEN [custom_rules[i] EXCEPT !.enabled = enabled]
                   ELSE custom_rules[i]]
         ELSE custom_rules
    /\ UNCHANGED <<document, rollback_vars, current_permission, violations,
                   execution_history>>

EnableRule(rule_name) ==
    /\ SetRule(rule_name, TRUE)
    /\ last' = [CallRecord("enable_rule") EXCEPT !.rule_name = rule_name]

DisableRule(rule_name) ==
    /\ SetRule(rule_name, FALSE)
    /\ last' = [CallRecord("disable_rule") EXCEPT !.rule_name = rule_name]

\* a SafetyRule as add_custom_rule receives it: its name and enabled flag
SafetyRule(name, enabled) == [name |-> name, enabled |-> enabled]

\* SafetyRules.add_custom_rule
AddCustomRule(rule) ==
    /\ custom_rules' = Append(custom_rules, rule)
    /\ last' = [CallRecord("add_custom_rule") EXCEPT !.rule_name = rule.name]
    /\ UNCHANGED <<rules, document, rollback_vars, current_permission,
                   violations, execution_history>>

\* CommandTranslator.validate_and_parse
ValidateAndParse(raw) ==
    /\ last' = [CallRecord("validate_and_parse") EXCEPT
                  !.raw = raw, !.validated = validate_and_parse(raw)]
    /\ UNCHANGED <<document, rollback_vars, current_permission, rules_vars,
                   violations, execution_history>>

\* variant of validate_command in which a confirmed call also raises the
\* permission level to DELETE
ValidateCommand_elevating(validated_command, confirmed) ==
    /\ violations' = Violations(V, validated_command, confirmed)
    /\ current_permission' = IF confirmed THEN DELETE ELSE current_permission
    /\ last' = [CallRecord("validate_command") EXCEPT
                  !.validated = validated_command,
                  !.confirmed = confirmed,
                  !.safety_called = TRUE,
                  !.safety = validate_command(V, validated_command, confirmed)]
    /\ UNCHANGED <<document, rollback_vars, rules_vars, execution_history>>

\* SafetyValidator.validate_command
ValidateCommand(validated_command, confirmed) ==
    /\ violations' = Violations(V, validated_command, confirmed)
    /\ last' = [CallRecord("validate_command") EXCEPT
                  !.validated = validated_command,
                  !.confirmed = confirmed,
                  !.safety_called = TRUE,
                  !.safety = validate_command(V, validated_command, confirmed)]
    /\ UNCHANGED <<document, rollback_vars, current_permission, rules_vars,
                   execution_history>>

\* OperationExecutor.execute_operations
ExecuteOperations(validated_command, dry_run, timeout_before) ==
    LET e == execute_operations(document, execution_history, validated_command,
                                dry_run, timeout_before)
    IN  /\ document' = e.document
        /\ execution_history' = e.execution_history
        /\ last' = [CallRecord("execute_operations") EXCEPT
                      !.validated = validated_command,
                      !.dry_run = dry_run,
                      !.timeout_before = timeout_before,
                      !.executor_called = TRUE,
                      !.result = e.result,
                      !.ran = e.ran,
                      !.results = e.results,
                      !.recomputes = e.recomputes]
        /\ UNCHANGED <<rollback_vars, current_permission, rules_vars, violations>>

\* RollbackManager.create_snapshot
CreateSnapshot(description, save_ok) ==
    LET c == create_snapshot(RM, document, description, save_ok, clock + 1)
    IN  /\ snapshots' = c.rm.snapshots
        /\ snapshot_counter' = c.rm.snapshot_counter
        /\ files' = c.rm.files
        /\ clock' = IF is_loaded(document) THEN clock + 1 ELSE clock
        /\ last' = [CallRecord("create_snapshot") EXCEPT
                      !.description = description,
                      !.save_ok = save_ok,
                      !.snapshot_called = TRUE,
                      !.snapshot_returned = c.returned,
                      !.returned = c.returned]
        /\ UNCHANGED <<document, current_permission, rules_vars, violations,
                       execution_history, request>>

\* RollbackManager.rollback_to_snapshot
RollbackToSnapshot(snapshot_index, load_ok) ==
    LET r == rollback_to_snapshot(RM, document, snapshot_index, load_ok)
    IN  /\ snapshots' = r.rm.snapshots
        /\ document' = r.document
        /\ last' = [CallRecord("rollback_to_snapshot") EXCEPT
                      !.arg = snapshot_index, !.returned = r.returned]
        /\ UNCHANGED <<files, snapshot_counter, clock, current_permission,
                       rules_vars, violations, execution_history, request>>

\* RollbackManager.rollback_last_operation, FreeCADLLMFramework.rollback
RollbackLastOperation(load_ok) ==
    LET r == rollback_last_operation(RM, document, load_ok)
    IN  /\ snapshots' = r.rm.snapshots
        /\ document' = r.document
        /\ last' = [CallRecord("rollback_last_operation") EXCEPT
                      !.arg = -2, !.returned = r.returned]
        /\ UNCHANGED <<files, snapshot_counter, clock, current_permission,
                       rules_vars, violations, execution_history, request>>

\* RollbackManager.clear_snapshots
ClearSnapshots ==
    /\ snapshots' = clear_snapshots(RM).snapshots
    /\ snapshot_counter' = clear_snapshots(RM).snapshot_counter
    /\ files' = clear_snapshots(RM).files
    /\ last' = CallRecord("clear_snapshots")
    /\ UNCHANGED <<document, clock, current_permission, rules_vars, violations,
                   execution_history, request>>

\* FreeCADLLMFramework.execute_command, its last step: the state it leaves
\* once the snapshot (c), the safety validation and the execution (e) are made
ExecuteCommandFinish(raw, confirmed, dry_run, validated, snapshot_called, c, safety, executor_called, e) ==
    /\ snapshots' = c.rm.snapshots
    /\ snapshot_counter' = c.rm.snapshot_counter
    /\ files' = c.rm.files
    /\ clock' = IF snapshot_called THEN clock + 1 ELSE clock
    /\ violations' = IF validated.valid
                       THEN Violations(V, validated, confirmed)
                     ELSE violations
    /\ document' = e.document
    /\ execution_history' = e.execution_history
    /\ last' = [CallRecord("execute_command") EXCEPT
                  !.raw = raw,
                  !.confirmed = confirmed,
                  !.dry_run = dry_run,
                  !.validated = validated,
                  !.snapshot_called = snapshot_called,
                  !.snapshot_returned = c.returned,
                  !.safety_called = validated.valid,
                  !.safety = safety,
                  !.executor_called = executor_called,
                  !.result = e.result,
                  !.ran = e.ran,
                  !.results = e.results,
                  !.recomputes = e.recomputes,
                  !.returned = executor_called /\ e.result.success]
    /\ UNCHANGED <<current_permission, rules_vars, request>>

\* variant of execute_command that hands the command to the executor whatever
\* validate_command returned
ExecuteCommandValidated_ungated(raw, confirmed, dry_run, timeout_before, validated, snapshot_called, c, safety) ==
    ExecuteCommandFinish(raw, confirmed, dry_run, validated, snapshot_called, c,
        safety, validated.valid,
        execute_operations(document, execution_history, validated,
                           dry_run, timeout_before))

\* execute_command from the safety validation on: execute_operations is
\* called when the command is safe
ExecuteCommandValidated(raw, confirmed, dry_run, timeout_before, validated, snapshot_called, c, safety) ==
    ExecuteCommandFinish(raw, confirmed, dry_run, validated, snapshot_called, c,
        safety, safety.safe,
        IF safety.safe
          THEN execute_operations(document, execution_history, validated,
                                  dry_run, timeout_before)
        ELSE [result |-> NoResult, document |-> document,
              execution_history |-> execution_history, ran |-> <<>>,
              results |-> <<>>, recomputes |-> 0])

\* execute_command from the snapshot on: create_snapshot is called, and its
\* return value dropped, when the run is live and a document is loaded; then
\* validate_command
ExecuteCommandParsed(raw, confirmed, dry_run, save_ok, timeout_before, validated, snapshot_called) ==
    ExecuteCommandValidated(raw, confirmed, dry_run, timeout_before, validated,
        snapshot_called,
        IF snapshot_called
          THEN create_snapshot(RM, document, "Before", save_ok, clock + 1)
        ELSE [rm |-> RM, returned |-> FALSE],
        IF validated.valid THEN validate_command(V, validated, confirmed)
        ELSE NoSafety)

\* FreeCADLLMFramework.execute_command: translate (raw is the translator's
\* answer), validate_and_parse, create_snapshot, validate_command,
\* execute_operations
ExecuteCommandTranslated(raw, confirmed, dry_run, save_ok, timeout_before, validated) ==
    ExecuteCommandParsed(raw, confirmed, dry_run, save_ok, timeout_before,
        validated, validated.valid /\ ~dry_run /\ is_loaded(document))

ExecuteCommand(raw, confirmed, dry_run, save_ok, timeout_before) ==
    ExecuteCommandTranslated(raw, confirmed, dry_run, save_ok, timeout_before,
                             validate_and_parse(raw))

\* the elapsed-time checks that can fail first in a run of n operations
\* (0: none fails)
TimeoutChoices(n) == {k \in 0..n : k <= MaxPrefix + 1}

CanSnapshot == clock < MaxCreated
CanRun == Len(execution_history) < MaxRuns
\* the pipeline snapshots before every live command it validates
CanSnapshotAndRun == clock < MaxRuns

\* the session is single-threaded: a call is made once the caller has taken
\* the result of the previous one
Idle == last.call = "<none>"

\* the caller takes the result of the last call
Return ==
    /\ ~Idle
    /\ last' = NoCall
    /\ UNCHANGED <<document, rollback_vars, current_permission, rules_vars,
                   violations, execution_history>>

(***************************************************************************)
(* Spec: the session as the framework drives it.                           *)
(***************************************************************************)
\* whether execute_command with these arguments takes a snapshot, and
\* whether it goes on to run the operations
TakesSnapshot(validated, dry_run) ==
    validated.valid /\ ~dry_run /\ is_loaded(document)

RunsLive(validated, confirmed, dry_run) ==
    /\ TakesSnapshot(validated, dry_run)
    /\ validate_command(V, validated, confirmed).safe

\* save_ok and timeout_before are drawn only where the call reads them
PipelineChoices(raw, confirmed, dry_run, snapshot_called, live, n) ==
    \E save_ok \in IF snapshot_called THEN BOOLEAN ELSE {TRUE} :
      \E timeout_before \in IF live THEN TimeoutChoices(n) ELSE {0} :
        /\ snapshot_called => CanSnapshotAndRun
        /\ ExecuteCommand(raw, confirmed, dry_run, save_ok, timeout_before)

PipelineInputs(raw, confirmed, dry_run, validated) ==
    PipelineChoices(raw, confirmed, dry_run, TakesSnapshot(validated, dry_run),
                    RunsLive(validated, confirmed, dry_run),
                    Len(validated.operations))

PipelineStep ==
    \E raw \in PipelineBatches, confirmed \in BOOLEAN, dry_run \in BOOLEAN :
      PipelineInputs(raw, confirmed, dry_run, validate_and_parse(raw))

Next ==
    \/ Idle /\ CreateNewDocument
    \/ Idle /\ \E L \in PermissionLevel : ElevatePermission(L)
    \/ Idle /\ PipelineStep
    \/ Idle /\ \E load_ok \in BOOLEAN : RollbackLastOperation(load_ok)
    \/ Return

Spec == Init /\ [][Next]_vars

(***************************************************************************)
(* SpecValidator: validate_command applied to a request, for every         *)
(* validator the session can have built: any permission level, a document  *)
(* loaded or not, the rules as constructed or one of them disabled.        *)
(***************************************************************************)
InitValidator ==
    /\ request \in {[raw |-> raw, confirmed |-> c, dry_run |-> FALSE] :
                       raw \in ValidatorBatches, c \in BOOLEAN}
    /\ document \in {NoDocument, Doc({"wall", "window"})}
    /\ files = [n \in Slots |-> NoFile]
    /\ snapshots = <<>>
    /\ snapshot_counter = 0
    /\ clock = 0
    /\ current_permission \in PermissionLevel
    /\ rules \in RuleConfigs
    /\ custom_rules = <<>>
    /\ violations = <<>>
    /\ execution_history = <<>>
    /\ last = NoCall

\* the one call of the run
ValidateRequest ==
    /\ Idle
    /\ ValidateCommand(validate_and_parse(request.raw), request.confirmed)

NextValidator == ValidateRequest

SpecValidator == InitValidator /\ [][NextValidator]_vars

(***************************************************************************)
(* SpecCommand: execute_command applied to a request, on a fresh session   *)
(* with or without a document and at any permission level.                 *)
(***************************************************************************)
CommandOps == {opCreateBox, opExec, opImportOs, opFromOs, opImportOsPath}
CommandBatches ==
    {RawCommand("ok", ops, FALSE) : ops \in SeqsUpTo(CommandOps, MaxPrefix)}
    \cup {RawCommand("error", <<>>, FALSE)}

InitCommand ==
    /\ request \in {[raw |-> raw, confirmed |-> c, dry_run |-> d] :
                       raw \in CommandBatches, c \in BOOLEAN, d \in BOOLEAN}
    /\ document \in {NoDocument, Doc({})}
    /\ files = [n \in Slots |-> NoFile]
    /\ snapshots = <<>>
    /\ snapshot_counter = 0
    /\ clock = 0
    /\ current_permission \in PermissionLevel
    /\ rules = _initialize_rules
    /\ custom_rules = <<>>
    /\ violations = <<>>
    /\ execution_history = <<>>
    /\ last = NoCall

\* the one call of the run
ExecuteRequest ==
    /\ Idle
    /\ PipelineInputs(request.raw, request.confirmed, request.dry_run,
                      validate_and_parse(request.raw))

NextCommand == ExecuteRequest

SpecCommand == InitCommand /\ [][NextCommand]_vars

(***************************************************************************)
(* SpecRollback: the rollback manager driven directly, between batches     *)
(* handed to the executor.                                                 *)
(***************************************************************************)
RollbackCommands ==
    {validate_and_parse(RawCommand("ok", <<op>>, FALSE)) :
        op \in {opCreateBox, opDeleteBox}}

\* the indices tried: every list position, every negative index, one beyond
SnapshotIndices == (-max_snapshots - 1)..max_snapshots

NextRollback ==
    \/ Idle /\ CreateNewDocument
    \/ Idle /\ CanRun /\ is_loaded(document)
            /\ \E command \in RollbackCommands :
                  ExecuteOperations(command, FALSE, 0)
    \/ Idle /\ CanSnapshot /\ \E save_ok \in BOOLEAN :
                  CreateSnapshot("Before", save_ok)
    \/ Idle /\ \E snapshot_index \in SnapshotIndices, load_ok \in BOOLEAN :
                  RollbackToSnapshot(snapshot_index, load_ok)
    \/ Idle /\ ClearSnapshots
    \/ Return

SpecRollback == Init /\ [][NextRollback]_vars

(***************************************************************************)
(* SpecSnapshot: create_snapshot called by hand, with and without a        *)
(* document.                                                               *)
(***************************************************************************)
Descriptions == {"Auto snapshot", "Before operation"}

NextSnapshot ==
    \/ Idle /\ CreateNewDocument
    \/ Idle /\ \E d \in UserFiles : LoadFile(d)
    \/ Idle /\ CloseDocument
    \/ Idle /\ (is_loaded(document) => CanSnapshot)
            /\ \E description \in Descriptions, save_ok \in BOOLEAN :
                  CreateSnapshot(description, save_ok)
    \/ Return

SpecSnapshot == Init /\ [][NextSnapshot]_vars

(***************************************************************************)
(* SpecExecutor: execute_operations called on a translated batch, live or  *)
(* as a dry run, with and without a document, as often as the history      *)
(* bound allows.                                                           *)
(***************************************************************************)
ExecutorOps == {opCreateBox, opDeleteBox, opDivZero}
ExecutorBatches ==
    {RawCommand("ok", ops, FALSE) : ops \in SeqsUpTo(ExecutorOps, MaxPrefix + 1)}
    \cup {RawCommand("error", <<>>, FALSE)}

InitExecutor ==
    /\ request \in {[raw |-> raw, confirmed |-> FALSE, dry_run |-> d] :
                       raw \in ExecutorBatches, d \in BOOLEAN}
    /\ document \in {NoDocument, Doc({}), Doc({"box"})}
    /\ files = [n \in Slots |-> NoFile]
    /\ snapshots = <<>>
    /\ snapshot_counter = 0
    /\ clock = 0
    /\ current_permission = CREATE
    /\ rules = _initialize_rules
    /\ custom_rules = <<>>
    /\ violations = <<>>
    /\ execution_history = <<>>
    /\ last = NoCall

ExecuteOperationsRequest ==
    /\ Idle
    /\ CanRun
    /\ \E timeout_before \in TimeoutChoices(Len(request.raw.operations)) :
          ExecuteOperations(validate_and_parse(request.raw), request.dry_run,
                            timeout_before)

NextExecutor ==
    \/ ExecuteOperationsRequest
    \/ Return

SpecExecutor == InitExecutor /\ [][NextExecutor]_vars

(***************************************************************************)
(* SpecHistory: live runs on an executor whose history already holds the   *)
(* entries of earlier runs, up to the cap.                                 *)
(***************************************************************************)
HistoryBatches ==
    {RawCommand("ok", ops, FALSE) :
        ops \in {<<opCreateBox>>, <<opDivZero>>, <<opDivZero, opCreateBox>>}}

\* the entries of the history after n <= MAX_HISTORY runs on a loaded
\* document, the odd ones of a batch whose one operation raises and the even
\* ones of a batch that creates a box
HistoryAfter(n) ==
    [i \in 1..n |->
        IF i % 2 = 1
          THEN _log_execution(<<>>, validate_and_parse(RawCommand("ok", <<opDivZero>>, FALSE)), <<FALSE>>)[1]
        ELSE _log_execution(<<>>, validate_and_parse(RawCommand("ok", <<opCreateBox>>, FALSE)), <<TRUE>>)[1]]

HistorySizes == {0, MAX_HISTORY - 1, MAX_HISTORY}

InitHistory ==
    /\ request \in {[raw |-> raw, confirmed |-> FALSE, dry_run |-> FALSE] :
                       raw \in HistoryBatches}
    /\ document \in {Doc({}), Doc({"box"})}
    /\ files = [n \in Slots |-> NoFile]
    /\ snapshots = <<>>
    /\ snapshot_counter = 0
    /\ clock = 0
    /\ current_permission = CREATE
    /\ rules = _initialize_rules
    /\ custom_rules = <<>>
    /\ violations = <<>>
    /\ execution_history \in {HistoryAfter(n) : n \in HistorySizes}
    /\ last = NoCall

\* OperationExecutor.clear_history
ClearHistory ==
    /\ execution_history' = clear_history
    /\ last' = CallRecord("clear_history")
    /\ UNCHANGED <<document, rollback_vars, current_permission, rules_vars,
                   violations>>

NextHistory ==
    \/ Idle /\ ExecuteOperations(validate_and_parse(request.raw), FALSE, 0)
    \/ Idle /\ execution_history # <<>> /\ ClearHistory
    \/ Return

SpecHistory == InitHistory /\ [][NextHistory]_vars

(***************************************************************************)
(* SpecTranslator: validate_and_parse applied to a response of the         *)
(* translator, of every shape and with well-formed and defective           *)
(* operations.                                                             *)
(***************************************************************************)
TranslatorOps ==
    {opCreateBox, opNoCode, opNoDescription, opNoType, opNoAffected,
     opBadType, opSyntaxErr, opExec}

TranslatorBatches ==
    {RawCommand("ok", ops, FALSE) : ops \in SeqsUpTo(TranslatorOps, MaxPrefix)}
    \cup {RawCommand(shape, ops, FALSE) :
             shape \in {"error", "missing_imports", "operations_not_list",
                        "imports_not_list"},
             ops \in {<<>>, <<opCreateBox>>}}
    \cup {RawCommand("missing_operations", <<>>, FALSE)}

InitTranslator ==
    /\ request \in {[raw |-> raw, confirmed |-> FALSE, dry_run |-> FALSE] :
                       raw \in TranslatorBatches}
    /\ document = NoDocument
    /\ files = [n \in Slots |-> NoFile]
    /\ snapshots = <<>>
    /\ snapshot_counter = 0
    /\ clock = 0
    /\ current_permission = CREATE
    /\ rules = _initialize_rules
    /\ custom_rules = <<>>
    /\ violations = <<>>
    /\ execution_history = <<>>
    /\ last = NoCall

ValidateAndParseRequest == Idle /\ ValidateAndParse(request.raw)

NextTranslator == ValidateAndParseRequest

SpecTranslator == InitTranslator /\ [][NextTranslator]_vars

(***************************************************************************)
(* SpecRules: the catalog of SafetyRules under add_custom_rule,            *)
(* enable_rule and disable_rule.                                           *)
(***************************************************************************)
MaxCustomRules == 2

\* the names custom rules are added under: two new ones and a built-in one
CustomRuleNames == {"custom_a", "custom_b", "no_mass_delete"}

\* the names enable_rule and disable_rule are called with
ToggledNames ==
    CustomRuleNames \cup {"limit_operation_complexity", "unknown_rule"}

InitRules ==
    /\ request = NoRequest
    /\ document = NoDocument
    /\ files = [n \in Slots |-> NoFile]
    /\ snapshots = <<>>
    /\ snapshot_counter = 0
    /\ clock = 0
    /\ current_permission = READ
    /\ rules = _initialize_rules
    /\ custom_rules = <<>>
    /\ violations = <<>>
    /\ execution_history = <<>>
    /\ last = NoCall

NextRules ==
    \/ Idle /\ Len(custom_rules) < MaxCustomRules
            /\ \E name \in CustomRuleNames, enabled \in BOOLEAN :
                  AddCustomRule(SafetyRule(name, enabled))
    \/ Idle /\ \E rule_name \in ToggledNames : EnableRule(rule_name)
    \/ Idle /\ \E rule_name \in ToggledNames : DisableRule(rule_name)
    \/ Return

SpecRules == InitRules /\ [][NextRules]_vars

(***************************************************************************)
(* SpecDependencies: validate_command on batches that delete objects other *)
(* objects of the document depend on.                                      *)
(***************************************************************************)
DependencyOps == {opDeleteWall, opDeleteBox, opCreateBox}
DependencyBatches ==
    {RawCommand("ok", ops, FALSE) : ops \in SeqsUpTo(DependencyOps, MaxPrefix)}

\* a wall with one window, and a wall with six
DependencyDocs == {NoDocument, Doc({"wall", "window"}), Doc({"wall"} \cup Windows)}

InitDependencies ==
    /\ request \in {[raw |-> raw, confirmed |-> c, dry_run |-> FALSE] :
                       raw \in DependencyBatches, c \in BOOLEAN}
    /\ document \in DependencyDocs
    /\ files = [n \in Slots |-> NoFile]
    /\ snapshots = <<>>
    /\ snapshot_counter = 0
    /\ clock = 0
    /\ current_permission \in {READ, DELETE}
    /\ rules \in {_initialize_rules,
                  [_initialize_rules EXCEPT !["no_break_dependencies"] = FALSE],
                  [_initialize_rules EXCEPT !["no_delete_load_bearing"] = FALSE]}
    /\ custom_rules = <<>>
    /\ violations = <<>>
    /\ execution_history = <<>>
    /\ last = NoCall

NextDependencies == ValidateRequest

SpecDependencies == InitDependencies /\ [][NextDependencies]_vars

(***************************************************************************)
(* SpecUndo: the framework running live single-operation commands and      *)
(* undoing them with rollback.                                             *)
(***************************************************************************)
UndoBatches ==
    {RawCommand("ok", <<op>>, FALSE) : op \in {opCreateBox, opCreateWall}}

NextUndo ==
    \/ Idle /\ CreateNewDocument
    \/ Idle /\ CanSnapshot
            /\ \E raw \in UndoBatches, save_ok \in BOOLEAN :
                  ExecuteCommand(raw, FALSE, FALSE, save_ok, 0)
    \/ Idle /\ \E load_ok \in BOOLEAN : RollbackLastOperation(load_ok)
    \/ Return

SpecUndo == Init /\ [][NextUndo]_vars

(***************************************************************************)
(* SpecAnalysis: validate_and_parse and validate_command called by hand,   *)
(* one call after another, in a session in which the document, the         *)
(* snapshots, the execution history and the rule catalog have changed.     *)
(***************************************************************************)
AnalysisOps == {opCreateBox, opDeleteBox}
AnalysisBatches ==
    {RawCommand("ok", <<op>>, rc) : op \in AnalysisOps, rc \in BOOLEAN}
    \cup {RawCommand("ok", <<opCreateBox, opExec>>, FALSE),
          RawCommand("error", <<>>, FALSE)}

NextAnalysis ==
    \/ Idle /\ CreateNewDocument
    \/ Idle /\ CanRun /\ is_loaded(document)
            /\ ExecuteOperations(
                  validate_and_parse(RawCommand("ok", <<opCreateBox>>, FALSE)),
                  FALSE, 0)
    \/ Idle /\ CanSnapshot /\ CreateSnapshot("Before", TRUE)
    \/ Idle /\ DisableRule("require_delete_confirmation")
    \/ Idle /\ \E raw \in AnalysisBatches : ValidateAndParse(raw)
    \/ Idle /\ \E raw \in AnalysisBatches, confirmed \in BOOLEAN :
                  ValidateCommand(validate_and_parse(raw), confirmed)
    \/ Return

SpecAnalysis == Init /\ [][NextAnalysis]_vars

(***************************************************************************)
(* Properties.  The notions they are stated in are defined here from the   *)
(* claims' words, apart from the operators that model the code.            *)
(***************************************************************************)
\* the code of a candidate operation calls a forbidden function, or has an
\* import statement that names a forbidden module
ContainsForbidden(code) ==
    LET t == CodeTable[code] IN
      /\ t.syntax_ok
      /\ \/ \E c \in t.calls : /\ c.func \in {"Name", "Attribute"}
                               /\ c.name \in FORBIDDEN_FUNCTIONS
         \/ (t.imports \cup t.from_imports) \cap FORBIDDEN_MODULES # {}

SomeForbidden(raw) ==
    \E i \in 1..Len(raw.operations) : ContainsForbidden(raw.operations[i].code)

AllForbidden(raw) ==
    /\ raw.operations # <<>>
    /\ \A i \in 1..Len(raw.operations) :
          ContainsForbidden(raw.operations[i].code)

CommandDone == last.call = "execute_command"

C2_PermissionMonotonic ==
    [][/\ current_permission' >= current_permission
       /\ last'.call = "elevate_permission" =>
            current_permission' =
                IF last'.arg > current_permission THEN last'.arg
                ELSE current_permission]_vars

\* C2, a case of it: elevate_permission was called with a level below the
\* current one, after a command was run, and the level stayed
C2_LowerLevelIgnored ==
    /\ last.call = "elevate_permission"
    /\ last.arg < last.pre_permission
    /\ current_permission = last.pre_permission
    /\ execution_history # <<>>

\* validate_command has been applied to a valid batch
Validated == last.call = "validate_command" /\ last.validated.valid

checked_operations == last.validated.operations

\* the blocking violations of the result that carry the rule's name
ViolationsOf(rule_name) ==
    SelectSeq(last.safety.violations, LAMBDA x : x.rule = rule_name)

\* the level each operation type requires
RequiredLevel ==
    [query |-> READ, modify |-> MODIFY, create |-> CREATE, delete |-> DELETE]

DeniedOperations ==
    SelectSeq(checked_operations,
              LAMBDA op : RequiredLevel[op.type] > current_permission)

C4_CreateAtModifySafe ==
    (/\ Validated
     /\ Len(checked_operations) = 1
     /\ checked_operations[1].type = "create"
     /\ current_permission = MODIFY
     /\ rules = _initialize_rules
     /\ custom_rules = <<>>
     /\ is_loaded(document)
     /\ ~last.confirmed)
    => (last.safety.safe /\ last.safety.violations = <<>>)

\* C4, the failing run: the batch of the validator's own test, one create
\* operation at level MODIFY, is reported unsafe with one
\* require_permission_elevation violation
C4_CreateAtModifyBlocked ==
    /\ Validated
    /\ last.validated.operations = <<ValidatedOp(opCreateWall)>>
    /\ ~last.validated.requires_confirmation
    /\ current_permission = MODIFY
    /\ rules = _initialize_rules
    /\ is_loaded(document)
    /\ ~last.confirmed
    /\ ~last.safety.safe
    /\ Len(last.safety.violations) = 1
    /\ last.safety.violations[1].rule = "require_permission_elevation"

\* the operation is a delete whose code references a structural element type
TargetsStructuralType(op) ==
    /\ op.type = "delete"
    /\ CodeTable[op.code].lexemes \cap STRUCTURAL_ELEMENT_TYPES # {}

StructuralDeletes == SelectSeq(checked_operations, TargetsStructuralType)

\* C5: with a document loaded and the rules as constructed, a batch with a
\* delete operation whose code references a structural element type is
\* unsafe and has a blocking no_delete_load_bearing violation for each such
\* operation, whether confirmed is false or true
C5_StructuralDeleteBlocked ==
    (/\ Validated
     /\ is_loaded(document)
     /\ rules = _initialize_rules
     /\ custom_rules = <<>>
     /\ StructuralDeletes # <<>>)
    => /\ ~last.safety.safe
       /\ \A i \in 1..Len(StructuralDeletes) :
             \E j \in 1..Len(last.safety.violations) :
                /\ last.safety.violations[j].rule = "no_delete_load_bearing"
                /\ last.safety.violations[j].about =
                       StructuralDeletes[i].description
                /\ last.safety.violations[j].blocked

\* C5, a case of it: a confirmed batch at level DELETE whose delete
\* operation declares no affected object is blocked by the structural rule
\* alone
C5_ConfirmedStructuralDeleteBlocked ==
    /\ Validated
    /\ is_loaded(document)
    /\ rules = _initialize_rules
    /\ last.confirmed
    /\ current_permission = DELETE
    /\ Len(StructuralDeletes) = 1
    /\ StructuralDeletes[1].affected_objects = <<>>
    /\ ~last.safety.safe
    /\ \A j \in 1..Len(last.safety.violations) :
          last.safety.violations[j].rule = "no_delete_load_bearing"

\* N: the affected_objects of the batch's delete operations, counted
TotalAffected ==
    LET dels == SelectSeq(checked_operations, LAMBDA op : op.type = "delete")
    IN  SumSeq([i \in 1..Len(dels) |-> Len(dels[i].affected_objects)])

\* C6 as amended: while the no_mass_delete rule is enabled, a batch with
\* N > MAX_DELETE_OBJECTS validated with confirmed=false is unsafe and has
\* a no_mass_delete violation; a batch has a no_mass_delete violation only
\* then, so none with N <= MAX_DELETE_OBJECTS, none with confirmed=true and
\* none while the rule is disabled
C6_MassDeleteWhileEnabled ==
    Validated =>
        /\ (/\ rules["no_mass_delete"]
            /\ TotalAffected > MAX_DELETE_OBJECTS
            /\ ~last.confirmed)
           => /\ ~last.safety.safe
              /\ Len(ViolationsOf("no_mass_delete")) = 1
              /\ ViolationsOf("no_mass_delete")[1].n = TotalAffected
        /\ ViolationsOf("no_mass_delete") # <<>>
           => /\ rules["no_mass_delete"]
              /\ TotalAffected > MAX_DELETE_OBJECTS
              /\ ~last.confirmed

\* C6, a case of it: with the rule enabled, a batch one object over the cap
\* was validated unconfirmed and got the violation
C6_OneOverCap ==
    /\ Validated
    /\ rules["no_mass_delete"]
    /\ TotalAffected = MAX_DELETE_OBJECTS + 1
    /\ ~last.confirmed
    /\ ViolationsOf("no_mass_delete") # <<>>
    /\ ~last.safety.safe

\* C6 as stated: every batch with N > MAX_DELETE_OBJECTS validated with
\* confirmed=false is unsafe with a no_mass_delete violation, and every
\* batch with N <= MAX_DELETE_OBJECTS and confirmed=true has none
C6_MassDeleteAlways ==
    Validated =>
        /\ (TotalAffected > MAX_DELETE_OBJECTS /\ ~last.confirmed)
           => (~last.safety.safe /\ ViolationsOf("no_mass_delete") # <<>>)
        /\ (TotalAffected <= MAX_DELETE_OBJECTS /\ last.confirmed)
           => ViolationsOf("no_mass_delete") = <<>>

HasDelete ==
    \E i \in 1..Len(checked_operations) : checked_operations[i].type = "delete"

\* C7: with the confirmation rule enabled, a batch with a delete operation
\* validated with confirmed=false has exactly one blocking
\* require_delete_confirmation violation and is unsafe, and validated with
\* confirmed=true has none; a batch with no delete operation has none,
\* whatever the rules
C7_DeleteConfirmation ==
    Validated =>
        LET found == ViolationsOf("require_delete_confirmation") IN
          /\ (rules["require_delete_confirmation"] /\ HasDelete
                /\ ~last.confirmed)
             => (Len(found) = 1 /\ found[1].blocked /\ ~last.safety.safe)
          /\ (rules["require_delete_confirmation"] /\ HasDelete
                /\ last.confirmed)
             => found = <<>>
          /\ ~HasDelete => found = <<>>

\* C7, a case of it: a batch of two delete operations validated unconfirmed
\* got one confirmation violation
C7_TwoDeletesOneViolation ==
    /\ Validated
    /\ rules["require_delete_confirmation"]
    /\ ~last.confirmed
    /\ Len(SelectSeq(checked_operations, LAMBDA op : op.type = "delete")) = 2
    /\ Len(ViolationsOf("require_delete_confirmation")) = 1
    /\ ~last.safety.safe

\* C8: check_operation_complexity(n) is valid iff n <= MAX_OPERATIONS_PER_BATCH
\* while the rule is enabled and always valid while it is disabled, and the
\* result of validate_command has a blocking limit_operation_complexity
\* violation, and is unsafe, exactly when the batch has more than
\* MAX_OPERATIONS_PER_BATCH operations and the rule is enabled
C8_BatchSizeCap ==
    Validated =>
        LET n == Len(checked_operations)
            found == ViolationsOf("limit_operation_complexity")
            enabled == rules["limit_operation_complexity"]
        IN  /\ check_operation_complexity(rules, custom_rules, n)
                 <=> (~enabled \/ n <= MAX_OPERATIONS_PER_BATCH)
            /\ found # <<>> <=> (enabled /\ n > MAX_OPERATIONS_PER_BATCH)
            /\ found # <<>> =>
                 (Len(found) = 1 /\ found[1].blocked /\ found[1].n = n
                    /\ ~last.safety.safe)

\* C8, a case of it: a batch of exactly MAX_OPERATIONS_PER_BATCH operations
\* passed the size check and validation
C8_AtCapAccepted ==
    /\ Validated
    /\ rules["limit_operation_complexity"]
    /\ Len(checked_operations) = MAX_OPERATIONS_PER_BATCH
    /\ ViolationsOf("limit_operation_complexity") = <<>>
    /\ last.safety.safe

\* C9 as stated: whenever execute_command has changed the document, the
\* rollback manager retains a snapshot, taken in that call, of the document
\* as it was before the change
C9_RestorePointBeforeMutation ==
    (CommandDone /\ document # last.pre_document) =>
        /\ snapshots # <<>>
        /\ snapshots[Len(snapshots)].saved = last.pre_document
        /\ files[snapshots[Len(snapshots)].file_path] = last.pre_document

\* C9, the failing run: execute_command changed the document of a session
\* that retains no snapshot at all
C9_MutatedWithoutSnapshot ==
    /\ CommandDone
    /\ last.snapshot_called
    /\ ~last.snapshot_returned
    /\ document # last.pre_document
    /\ snapshots = <<>>

\* the snapshot rollback_to_snapshot(last.arg) selected
RestoredPosition == Position(Len(last.pre_snapshots), last.arg)

\* C10: after rollback_to_snapshot has succeeded, the document is the one the
\* selected snapshot was taken of, with the object count the snapshot
\* recorded, whatever batches were run and snapshots taken in between; for a
\* list position given as index, the snapshots after it are no longer
\* retained
C10_SnapshotRoundTrip ==
    (last.call = "rollback_to_snapshot" /\ last.returned) =>
        /\ RestoredPosition \in 1..Len(last.pre_snapshots)
        /\ LET S == last.pre_snapshots[RestoredPosition] IN
             /\ document = S.saved
             /\ is_loaded(document)
             /\ Cardinality(get_objects(document)) = S.object_count
             /\ last.arg >= 0 =>
                  snapshots = SubSeq(last.pre_snapshots, 1, RestoredPosition)

\* C10, a case of it: S0 taken at count 0, a create batch, S1 taken at count
\* 1, a delete batch, and rollback_to_snapshot(0) left count 0 and S0 alone
C10_RestoreFirstOfTwo ==
    /\ last.call = "rollback_to_snapshot"
    /\ last.returned
    /\ last.arg = 0
    /\ Len(last.pre_snapshots) = 2
    /\ last.pre_snapshots[1].object_count = 0
    /\ last.pre_snapshots[2].object_count = 1
    /\ Len(execution_history) = 2
    /\ get_objects(document) = {}
    /\ Len(snapshots) = 1
    /\ snapshots[1] = last.pre_snapshots[1]

RollbackDone == last.call = "rollback_to_snapshot"

\* C11 as stated: after a successful rollback_to_snapshot, with any index
\* that selects a retained snapshot, the retained list is the snapshots up
\* to and including the restored one
C11_NewerSnapshotsDropped ==
    (RollbackDone /\ last.returned) =>
        snapshots = SubSeq(last.pre_snapshots, 1, RestoredPosition)

\* C11, the failing run: rollback_to_snapshot(-2) on two retained snapshots
\* restored the first and kept the second
C11_NewerSnapshotKept ==
    /\ RollbackDone
    /\ last.returned
    /\ last.arg = -2
    /\ Len(last.pre_snapshots) = 2
    /\ document = last.pre_snapshots[1].saved
    /\ snapshots = last.pre_snapshots

\* C12 as stated: a rollback_to_snapshot that returns false leaves the
\* document and the retained list as they were
C12_FailedRollbackChangesNothing ==
    (RollbackDone /\ ~last.returned) =>
        /\ document = last.pre_document
        /\ snapshots = last.pre_snapshots

\* C12, the failing run: the snapshot selected could not be loaded, and the
\* document that was loaded before the call is closed after it
C12_FailedLoadClosesDocument ==
    /\ RollbackDone
    /\ ~last.returned
    /\ RestoredPosition >= 1
    /\ is_loaded(last.pre_document)
    /\ ~is_loaded(document)
    /\ snapshots = last.pre_snapshots

\* two commands have each taken their snapshot and run their operation, and
\* rollback has then restored a snapshot
UndoneAfterTwoBatches ==
    /\ last.call = "rollback_last_operation"
    /\ last.returned
    /\ clock = 2
    /\ Len(last.pre_snapshots) = 2
    /\ Len(execution_history) = 2
    /\ \A i \in 1..2 : execution_history[i].success_count = 1

\* C13 as stated: rollback after two mutating batches of the pipeline leaves
\* the document as it was just before the most recent batch, which is the
\* document the most recent snapshot was taken of
C13_UndoesMostRecentBatch ==
    UndoneAfterTwoBatches =>
        document = last.pre_snapshots[Len(last.pre_snapshots)].saved

\* C13, the failing run: rollback after two batches left the document as it
\* was before the first of them
C13_UndoesTwoBatches ==
    /\ UndoneAfterTwoBatches
    /\ document = last.pre_snapshots[1].saved
    /\ document # last.pre_snapshots[2].saved
    /\ last.pre_document # last.pre_snapshots[2].saved

SnapshotCreated == last.call = "create_snapshot" /\ last.returned

C15_CreateSnapshotContract ==
    last.call = "create_snapshot" =>
        /\ ~is_loaded(last.pre_document) =>
              /\ ~last.returned
              /\ snapshots = last.pre_snapshots
              /\ snapshot_counter = last.pre_counter
        /\ (is_loaded(last.pre_document) /\ last.save_ok) =>
              /\ last.returned
              /\ snapshots # <<>>
              /\ LET new == snapshots[Len(snapshots)]
                     appended == Append(last.pre_snapshots, new)
                 IN  /\ new.description = last.description
                     /\ new.object_count =
                            Cardinality(get_objects(last.pre_document))
                     /\ new.operation_count = Len(last.pre_snapshots)
                     /\ snapshots =
                            SubSeq(appended,
                                   Len(appended) - Len(snapshots) + 1,
                                   Len(appended))
              /\ can_rollback(RM)
        /\ last.returned => (is_loaded(last.pre_document) /\ last.save_ok)

\* C15, a case of it: a snapshot described "Before operation" was created
\* of a loaded document with objects, and the list grew by that entry
C15_SnapshotAppended ==
    /\ SnapshotCreated
    /\ last.description = "Before operation"
    /\ get_objects(last.pre_document) # {}
    /\ snapshots = Append(last.pre_snapshots,
                          snapshots[Len(snapshots)])
    /\ snapshots[Len(snapshots)].description = "Before operation"
    /\ can_rollback(RM)

ExecutorDone == last.call = "execute_operations"

DryRunDone == ExecutorDone /\ last.dry_run /\ last.validated.valid

\* C16 as stated: a dry run of a structurally valid command changes neither
\* the document nor the snapshot list nor the execution history, and
\* returns success=true whatever the document-loaded state and the
\* operation list
C16_DryRunAlwaysSucceeds ==
    DryRunDone =>
        /\ document = last.pre_document
        /\ snapshots = last.pre_snapshots
        /\ execution_history = last.pre_history
        /\ last.result.success

\* C16, the failing run: a dry run of a valid, non-empty command with no
\* document loaded returned success=false "No FreeCAD document loaded"
C16_DryRunRefusedWithoutDocument ==
    /\ DryRunDone
    /\ last.validated.operations # <<>>
    /\ ~is_loaded(last.pre_document)
    /\ ~last.result.success
    /\ last.result.message = "No FreeCAD document loaded"
    /\ document = last.pre_document
    /\ execution_history = last.pre_history

LiveRunDone == ExecutorDone /\ ~last.dry_run

Refusable ==
    \/ ~last.validated.valid
    \/ ~last.pre_document.loaded
    \/ last.validated.operations = <<>>

\* C17: a live run of a command that is not valid, or with no document
\* loaded, or with an empty operation list is refused: the result has
\* success=false and an error, no operation code is run, no recompute is
\* triggered, and the document and the execution history are as before
C17_LiveRunRefused ==
    (LiveRunDone /\ Refusable) =>
        /\ ~last.result.success
        /\ last.result.error # ""
        /\ last.result.message \in {"Cannot execute invalid command",
                                    "No FreeCAD document loaded",
                                    "No operations to execute"}
        /\ last.ran = <<>>
        /\ last.recomputes = 0
        /\ document = last.pre_document
        /\ execution_history = last.pre_history

\* C17, a case of it: a live run of a valid command that creates a box was
\* refused because no document was loaded
C17_RefusedWithoutDocument ==
    /\ LiveRunDone
    /\ last.validated.valid
    /\ Len(last.validated.operations) >= 1
    /\ last.validated.operations[1].code = cMakeBox
    /\ ~last.pre_document.loaded
    /\ last.result.message = "No FreeCAD document loaded"
    /\ last.ran = <<>>
    /\ document = NoDocument

\* the document after the first n operations of a batch have been run in
\* order on it, each one's failure leaving the document as it found it
RECURSIVE EffectsOf(_, _, _)
EffectsOf(doc, operations, n) ==
    IF n = 0 THEN doc
    ELSE ExecCode(EffectsOf(doc, operations, n - 1), operations[n].code).document

\* the success flags of the first n operations of a batch run in order
RECURSIVE FlagsOf(_, _, _)
FlagsOf(doc, operations, n) ==
    IF n = 0 THEN <<>>
    ELSE Append(FlagsOf(doc, operations, n - 1),
                ExecCode(EffectsOf(doc, operations, n - 1),
                         operations[n].code).success)

Accepted == LiveRunDone /\ ~Refusable

TimedOut == Accepted /\ last.result.message = "Execution timeout"

\* C18: the elapsed-time check is made before each operation of a live run;
\* when the check before operation k fails, operations k and later are not
\* run, the result has success=false and an error naming the timeout,
\* data.executed_count is the number of operations 1..k-1 that succeeded,
\* and the document holds the effects of operations 1..k-1; a run in which
\* no check fails runs every operation
C18_TimeoutAbortsRemaining ==
    Accepted =>
        /\ (last.timeout_before = 0) =>
              /\ ~TimedOut
              /\ Len(last.ran) = Len(last.validated.operations)
        /\ (last.timeout_before > 0) =>
              /\ TimedOut
              /\ ~last.result.success
              /\ last.result.error = "Execution timeout"
              /\ Len(last.ran) = last.timeout_before - 1
              /\ last.ran = [i \in 1..(last.timeout_before - 1) |->
                                last.validated.operations[i].code]
              /\ last.result.executed_count =
                    Len(SelectSeq(FlagsOf(last.pre_document,
                                          last.validated.operations,
                                          last.timeout_before - 1),
                                  LAMBDA b : b))
              /\ document = EffectsOf(last.pre_document,
                                      last.validated.operations,
                                      last.timeout_before - 1)

\* C18, a case of it: the check before the third operation failed after a
\* box had been created and a division by zero had failed; the third
\* operation was not run, executed_count is 1 and the box is in the document
C18_TimeoutAfterOneOfTwoSucceeded ==
    /\ TimedOut
    /\ last.timeout_before = 3
    /\ Len(last.validated.operations) = 3
    /\ last.ran = <<cMakeBox, cDivZero>>
    /\ last.result.executed_count = 1
    /\ last.pre_document = Doc({})
    /\ document = Doc({"box"})

Completed == Accepted /\ ~TimedOut

Succeeded(flags) == {i \in 1..Len(flags) : flags[i]}

\* C19: for a live run that is not aborted, success=true exactly when every
\* operation succeeded, and then executed_count = total_count; when some
\* but not all succeeded the result is success=false with the "Partially
\* executed" message; when none succeeded it is success=false with the
\* plain failure message; in each case data.executed_count is the number of
\* successful operations, data.total_count the size of the batch, and
\* data.results has one entry per operation, in batch order
C19_OutcomeClassification ==
    Completed =>
        LET operations == last.validated.operations
            flags == FlagsOf(last.pre_document, operations, Len(operations))
            k == Cardinality(Succeeded(flags))
            n == Len(operations)
        IN  /\ last.results = flags
            /\ Len(last.results) = n
            /\ last.result.executed_count = k
            /\ last.result.total_count = n
            /\ last.result.success <=> (k = n)
            /\ (k = n) => last.result.message = "Successfully executed"
            /\ (0 < k /\ k < n) =>
                  last.result.message = "Partially executed"
            /\ (k = 0) =>
                  last.result.message = "Failed to execute operations"

\* C19, a case of it: of the three operations create box, divide by zero,
\* delete box the first and the third succeeded, and the run was reported
\* as partially executed with executed_count 2 of 3
C19_PartiallyExecuted ==
    /\ Completed
    /\ last.ran = <<cMakeBox, cDivZero, cRemoveBox>>
    /\ last.results = <<TRUE, FALSE, TRUE>>
    /\ ~last.result.success
    /\ last.result.message = "Partially executed"
    /\ last.result.executed_count = 2
    /\ last.result.total_count = 3

\* the number of operations a live run reaches before it ends
Reached ==
    IF last.timeout_before = 0 THEN Len(last.validated.operations)
    ELSE last.timeout_before - 1

\* C20: an error raised by one operation's code becomes that operation's
\* failure and does not end the batch: whatever fails, every operation up to
\* the end of the batch (or up to the failing elapsed-time check) is handed
\* to exec, in the supplied order, the run is never reported as "Execution
\* failed", and the document holds the effect of every operation that
\* completed, those before a failing one included
C20_FailureContained ==
    Accepted =>
        LET operations == last.validated.operations IN
        /\ last.ran = [i \in 1..Reached |-> operations[i].code]
        /\ document = EffectsOf(last.pre_document, operations, Reached)
        /\ last.result.message # "Execution failed"
        /\ ~TimedOut =>
              \A i \in 1..Len(operations) :
                  last.results[i] =
                      ExecCode(EffectsOf(last.pre_document, operations, i - 1),
                               operations[i].code).success

\* C20, a case of it: on an empty document the box was created, the
\* division by zero failed, and the box was then deleted by the third
\* operation, which could only succeed because the first one's effect
\* was kept
C20_LaterOperationRunAfterFailure ==
    /\ Completed
    /\ last.pre_document = Doc({})
    /\ last.ran = <<cMakeBox, cDivZero, cRemoveBox>>
    /\ ~last.results[2]
    /\ last.results[3]
    /\ document = Doc({})

\* C21 as stated: in every live run that reached the operation loop,
\* recompute is triggered exactly once when at least one operation executed
\* successfully and not at all when none did
C21_RecomputeOncePerRun ==
    Accepted =>
        /\ (last.result.executed_count > 0) => last.recomputes = 1
        /\ (last.result.executed_count = 0) => last.recomputes = 0

\* C21, the failing run: a box was created, the elapsed-time check before
\* the second operation failed, and the run ended with the box in the
\* document and no recompute
C21_TimeoutSkipsRecompute ==
    /\ TimedOut
    /\ last.result.executed_count = 1
    /\ last.ran = <<cMakeBox>>
    /\ document = Doc({"box"})
    /\ last.pre_document = Doc({})
    /\ last.recomputes = 0

\* C22 as stated: every live run that reaches the operation loop, whether it
\* completes, partially fails or is aborted by the timeout, appends exactly
\* one entry to the execution history, holding the counts and the
\* per-operation success flags
C22_OneAuditEntryPerRun ==
    Accepted =>
        /\ Len(execution_history) = Len(last.pre_history) + 1
        /\ SubSeq(execution_history, 1, Len(last.pre_history)) =
              last.pre_history
        /\ LET entry == execution_history[Len(execution_history)]
           IN  /\ entry.operations_count = Len(last.validated.operations)
               /\ entry.success_count = last.result.executed_count
               /\ Len(entry.operations) = Len(last.validated.operations)

\* C22, the failing run: a run that created a box and was then aborted by
\* the timeout left the execution history as it was
C22_TimeoutLeavesNoAuditEntry ==
    /\ TimedOut
    /\ last.ran = <<cMakeBox>>
    /\ document = Doc({"box"})
    /\ last.pre_document = Doc({})
    /\ execution_history = last.pre_history

\* C23: the execution history never holds more than 100 entries; a run that
\* logs leaves the former entries in their order followed by the new one,
\* and when that makes 101 the oldest entry is dropped, so that the most
\* recent 100 remain
C23_HistoryCapacity ==
    /\ Len(execution_history) <= MAX_HISTORY
    /\ Completed =>
          /\ execution_history # <<>>
          /\ LET h == Append(last.pre_history,
                             execution_history[Len(execution_history)])
             IN  execution_history =
                     IF Len(h) > MAX_HISTORY
                       THEN [i \in 1..MAX_HISTORY |-> h[i + Len(h) - MAX_HISTORY]]
                     ELSE h

\* C23, a case of it: a run on a full history whose oldest entry is that of
\* a failed run dropped that entry and kept the other 99 before the new one
C23_OldestEntryEvicted ==
    /\ Completed
    /\ Len(last.pre_history) = MAX_HISTORY
    /\ Len(execution_history) = MAX_HISTORY
    /\ last.pre_history[1].success_count = 0
    /\ execution_history[1].success_count = 1
    /\ execution_history[1] = last.pre_history[2]
    /\ execution_history[MAX_HISTORY - 1] = last.pre_history[MAX_HISTORY]

SafetyChecked == last.call = "validate_command"

InvalidCommandViolation ==
    ValidationViolation("invalid_command", "error", "", 0, TRUE)

\* C24 as stated: the result of validate_command has the four fields safe,
\* violations, warnings and requires_confirmation for every command; for a
\* command that is not valid it is safe=false with the one violation
\* invalid_command, and none of the checks has run
C24_ResultHasAllFields ==
    SafetyChecked =>
        /\ last.safety.has_all_fields
        /\ ~last.validated.valid =>
              /\ ~last.safety.safe
              /\ last.safety.violations = << InvalidCommandViolation >>
              /\ violations = <<>>

\* C24, the failing run: validate_command on a command that is not valid
\* returned safe=false and the one violation, without the fields warnings
\* and requires_confirmation
C24_InvalidResultLacksFields ==
    /\ SafetyChecked
    /\ ~last.validated.valid
    /\ ~last.safety.safe
    /\ last.safety.violations = << InvalidCommandViolation >>
    /\ violations = <<>>
    /\ ~last.safety.has_all_fields

\* C25: within execute_command the executor is called only with a command
\* for which validate_and_parse returned valid=true and validate_command
\* then returned safe=true; when either check fails the executor is not
\* called, no code is run, document and history stay as they were, and the
\* result is a failure that carries the errors or the violations
C25_ExecutorGated ==
    CommandDone =>
        /\ last.validated = validate_and_parse(last.raw)
        /\ last.safety_called <=> last.validated.valid
        /\ last.safety_called =>
              last.safety =
                  validate_command([V EXCEPT !.document = last.pre_document],
                                   last.validated, last.confirmed)
        /\ last.executor_called <=>
              (last.validated.valid /\ last.safety_called /\ last.safety.safe)
        /\ ~last.executor_called =>
              /\ ~last.returned
              /\ last.ran = <<>>
              /\ last.result = NoResult
              /\ document = last.pre_document
              /\ execution_history = last.pre_history
        /\ ~last.validated.valid => last.validated.errors # <<>>
        /\ (last.validated.valid /\ ~last.safety.safe) =>
              last.safety.violations # <<>>

\* C25, a case of it: a valid command that creates a box was rejected by
\* validate_command at the MODIFY level and never reached the executor
C25_UnsafeCommandNotExecuted ==
    /\ CommandDone
    /\ last.validated.valid
    /\ last.safety_called
    /\ ~last.safety.safe
    /\ current_permission = MODIFY
    /\ is_loaded(last.pre_document)
    /\ ~last.dry_run
    /\ ~last.executor_called
    /\ ~last.returned
    /\ document = last.pre_document

TranslatorDone == last.call = "validate_and_parse"

\* the response lacks operations or imports, or has one of them of the
\* wrong shape
Malformed(raw) ==
    raw.shape \in {"missing_operations", "missing_imports",
                   "operations_not_list", "imports_not_list"}

\* the operation lacks one of the four fields or declares an unknown type
Defective(op) ==
    \/ op.missing # {}
    \/ op.type \notin {"create", "modify", "delete", "query"}

Rejected ==
    /\ ~last.validated.valid
    /\ last.validated.errors # <<>>
    /\ last.validated.operations = <<>>

\* C26 as stated: validate_and_parse rejects the whole batch when operations
\* or imports is missing or not a list, or when any one operation lacks a
\* field or declares a type outside create, modify, delete, query
C26_AnyDefectRejectsBatch ==
    (TranslatorDone /\ (\/ Malformed(last.raw)
                        \/ \E i \in 1..Len(last.raw.operations) :
                              Defective(last.raw.operations[i]))) =>
        Rejected

\* C26 as amended: validate_and_parse rejects the whole batch when operations
\* or imports is missing or not a list; in a well-formed response an
\* operation that lacks a field or declares an unknown type is dropped, the
\* operations kept are in their order, and the batch is rejected only when
\* it was not empty and no operation was kept
C26_DefectiveOperationsDropped ==
    TranslatorDone =>
        /\ Malformed(last.raw) => Rejected
        /\ last.raw.shape = "ok" =>
              LET ops == last.raw.operations
                  sound == SelectSeq(ops,
                               LAMBDA op : /\ ~Defective(op)
                                           /\ _validate_code_ast(op.code).valid)
              IN  /\ \A i \in 1..Len(last.validated.operations) :
                        \E j \in 1..Len(ops) :
                            /\ ~Defective(ops[j])
                            /\ last.validated.operations[i] = ValidatedOp(ops[j])
                  /\ (ops # <<>> /\ sound = <<>>) => Rejected
                  /\ (ops = <<>> \/ sound # <<>>) =>
                        /\ last.validated.valid
                        /\ last.validated.operations =
                              [i \in 1..Len(sound) |-> ValidatedOp(sound[i])]

\* C26, a case of it: of a batch of a well-formed create and an operation of
\* type "paint" the create was kept and the batch returned as valid
C26_MixedBatchAccepted ==
    /\ TranslatorDone
    /\ last.raw = RawCommand("ok", <<opCreateBox, opBadType>>, FALSE)
    /\ last.validated.valid
    /\ last.validated.operations = <<ValidatedOp(opCreateBox)>>

NoValidOperationsFound == <<"No valid operations found", "">>

Entries(seq) == {seq[i] : i \in 1..Len(seq)}

\* a well-formed response with operations none of which passes validation
NonePasses ==
    /\ TranslatorDone
    /\ last.raw.shape = "ok"
    /\ last.raw.operations # <<>>
    /\ \A i \in 1..Len(last.raw.operations) :
          ~_validate_operation(last.raw.operations[i]).valid

\* a well-formed response with an empty operations list
EmptyBatch ==
    /\ TranslatorDone
    /\ last.raw.shape = "ok"
    /\ last.raw.operations = <<>>

\* C27 as stated: when the batch is not empty and no operation passes,
\* validate_and_parse returns valid=false with no operations and an errors
\* list that includes "No valid operations found"; an empty batch is not
\* rejected
C27_NoValidOperationsReported ==
    /\ NonePasses =>
          /\ Rejected
          /\ NoValidOperationsFound \in Entries(last.validated.errors)
    /\ EmptyBatch => last.validated.valid

\* C27 as amended: when the batch is not empty and no operation passes,
\* validate_and_parse returns valid=false with no operations and a non-empty
\* errors list made of the errors reported for the rejected operations, in
\* which "No valid operations found" does not occur; an empty batch is
\* returned valid=true with no operations
C27_OperationErrorsReported ==
    /\ NonePasses =>
          /\ Rejected
          /\ Entries(last.validated.errors) =
                UNION {Entries(_validate_operation(last.raw.operations[i]).errors) :
                          i \in 1..Len(last.raw.operations)}
          /\ NoValidOperationsFound \notin Entries(last.validated.errors)
    /\ EmptyBatch =>
          /\ last.validated.valid
          /\ last.validated.operations = <<>>

\* C27, a case of it: a batch whose one operation calls exec was rejected
\* with the error of that operation and nothing else
C27_OnlyOperationErrors ==
    /\ NonePasses
    /\ last.raw.operations = <<opExec>>
    /\ ~last.validated.valid
    /\ last.validated.errors = << <<"Forbidden function call", "exec">> >>

\* C28 as stated: no rule name occurs more than once across the built-in
\* and the custom rules
C28_RuleNamesUnique ==
    /\ \A i \in 1..Len(custom_rules) : custom_rules[i].name \notin DOMAIN rules
    /\ \A i, j \in 1..Len(custom_rules) :
          custom_rules[i].name = custom_rules[j].name => i = j

\* C28, the failing run: add_custom_rule appended a rule named
\* no_mass_delete, the name of a built-in rule
C28_CustomRuleNamedAsBuiltin ==
    /\ last.call = "add_custom_rule"
    /\ last.rule_name = "no_mass_delete"
    /\ "no_mass_delete" \in DOMAIN rules
    /\ custom_rules # <<>>
    /\ custom_rules[Len(custom_rules)].name = "no_mass_delete"

Toggled == last.call \in {"enable_rule", "disable_rule"}

\* the names of the rules in a catalog
Catalog(builtin, custom) ==
    DOMAIN builtin \cup {custom[i].name : i \in 1..Len(custom)}

AllRuleNames == BuiltinRules \cup ToggledNames

\* C29: after disable_rule(n) is_rule_enabled(n) is false and after
\* enable_rule(n) it is true, for a built-in and for a custom rule n alike;
\* is_rule_enabled of every other name is as before; for a name not in the
\* catalog the call changes nothing and is_rule_enabled(n) is false
C29_TogglePerRule ==
    Toggled =>
        LET n == last.rule_name
            in_catalog == n \in Catalog(last.pre_rules, last.pre_custom_rules)
        IN  /\ in_catalog =>
                  (is_rule_enabled(rules, custom_rules, n)
                      <=> (last.call = "enable_rule"))
            /\ \A m \in AllRuleNames \ {n} :
                  is_rule_enabled(rules, custom_rules, m) <=>
                      is_rule_enabled(last.pre_rules, last.pre_custom_rules, m)
            /\ Catalog(rules, custom_rules) =
                  Catalog(last.pre_rules, last.pre_custom_rules)
            /\ ~in_catalog =>
                  /\ rules = last.pre_rules
                  /\ custom_rules = last.pre_custom_rules
                  /\ ~is_rule_enabled(rules, custom_rules, n)

\* C29, a case of it: disable_rule turned off the custom rule custom_a,
\* which was enabled, and left custom_b and the built-in rules enabled
C29_CustomRuleDisabled ==
    /\ last.call = "disable_rule"
    /\ last.rule_name = "custom_a"
    /\ is_rule_enabled(last.pre_rules, last.pre_custom_rules, "custom_a")
    /\ ~is_rule_enabled(rules, custom_rules, "custom_a")
    /\ is_rule_enabled(rules, custom_rules, "custom_b")
    /\ rules = _initialize_rules

Cleared == last.call = "clear_snapshots"

\* C30 as stated: after clear_snapshots the retained list is empty and no
\* snapshot file written by the manager remains, whatever calls preceded it
C30_StorageReclaimed ==
    Cleared =>
        /\ snapshots = <<>>
        /\ \A n \in Slots : files[n] = NoFile

\* C30, the failing run: clear_snapshots on a manager that retained only
\* its first snapshot, the second having been dropped from the list by a
\* rollback, removed the first file and left the second
C30_DroppedSnapshotFileRemains ==
    /\ Cleared
    /\ snapshots = <<>>
    /\ Len(last.pre_snapshots) = 1
    /\ last.pre_snapshots[1].file_path = 1
    /\ files[1] = NoFile
    /\ files[2] # NoFile

\* the rules that have an entry in a list of violations
RulesOf(entries) == {entries[i].rule : i \in 1..Len(entries)}

\* what the four checks report, each on its own, one after the other
EachCheck ==
    _check_operation_complexity(V, checked_operations)
    \o _check_permissions(V, checked_operations)
    \o _check_data_safety(V, checked_operations, last.confirmed)
    \o (IF document.loaded
          THEN _check_structural_safety(V, checked_operations) ELSE <<>>)

\* C31: on a valid command validate_command runs the complexity, the
\* permission, the data-safety and, with a document loaded, the structural
\* check, in that order and whatever the earlier ones found: the violations
\* it collected are what each check reports on its own, one after the other,
\* and the result's violations and warnings are the blocking and the
\* non-blocking ones among them
C31_AllChecksEvaluated ==
    Validated =>
        /\ violations = EachCheck
        /\ last.safety.violations = SelectSeq(EachCheck, LAMBDA x : x.blocked)
        /\ last.safety.warnings = SelectSeq(EachCheck, LAMBDA x : ~x.blocked)

\* C31, a case of it: one pass reported a batch over the size cap, denied
\* operations, an unconfirmed delete and a structural deletion
C31_FourRulesReported ==
    /\ Validated
    /\ {"limit_operation_complexity", "require_permission_elevation",
        "require_delete_confirmation", "no_delete_load_bearing"}
          \subseteq RulesOf(last.safety.violations)

\* the dependency findings of the result, wherever they were put
DependencyWarnings ==
    SelectSeq(last.safety.warnings, LAMBDA x : x.rule = "no_break_dependencies")

DependencyViolations ==
    SelectSeq(last.safety.violations, LAMBDA x : x.rule = "no_break_dependencies")

\* the objects the delete operations of the command are taken to delete
DeleteTargets ==
    UNION {Entries(_analyze_delete_operation(checked_operations[i])) :
              i \in {k \in 1..Len(checked_operations) :
                        checked_operations[k].type = "delete"}}

DependencyChecked ==
    /\ Validated
    /\ document.loaded
    /\ rules["no_break_dependencies"]

\* safe is true iff nothing blocking was collected; dependency findings are
\* warnings only, one for each delete target with dependents
Partitioned ==
    /\ last.safety.safe <=> (\A i \in 1..Len(violations) : ~violations[i].blocked)
    /\ \A i \in 1..Len(last.safety.violations) : last.safety.violations[i].blocked
    /\ \A i \in 1..Len(last.safety.warnings) : ~last.safety.warnings[i].blocked
    /\ DependencyViolations = <<>>
    /\ ~DependencyChecked => DependencyWarnings = <<>>
    /\ DependencyChecked =>
          {DependencyWarnings[i].about : i \in 1..Len(DependencyWarnings)} =
              {t \in DeleteTargets : dependents(document, t) # {}}

C33_RequiresConfirmation ==
    Validated =>
        (last.safety.requires_confirmation
            <=> (request.raw.requires_confirmation /\ ~request.confirmed))

\* C33, a case of it: a command that declared requires_confirmation and was
\* confirmed has the field false, although it was rejected for its
\* permission level
C33_ConfirmedAndRejected ==
    /\ Validated
    /\ request.raw.requires_confirmation
    /\ request.confirmed
    /\ ~last.safety.requires_confirmation
    /\ ~last.safety.safe
    /\ "require_permission_elevation" \in RulesOf(last.safety.violations)

\* the storage slots of a list of snapshots
SlotsOf(snaps) == {snaps[i].file_path : i \in 1..Len(snaps)}

\* C34: the storage slots of the retained snapshots are pairwise distinct,
\* and a create_snapshot that returned a snapshot wrote it to a slot that
\* none of the snapshots retained before the call occupies
C34_SlotsDistinct ==
    /\ \A i, j \in 1..Len(snapshots) :
          snapshots[i].file_path = snapshots[j].file_path => i = j
    /\ SnapshotCreated =>
          /\ snapshots[Len(snapshots)].file_path \notin SlotsOf(last.pre_snapshots)
          /\ snapshots[Len(snapshots)].file_path = snapshot_counter
          /\ files[snapshot_counter] = last.pre_document

\* C34, a case of it: after clear_snapshots had reset the numbering, a
\* snapshot written to slot 1 again was followed by one written to slot 2
C34_NumberingRestarted ==
    /\ SnapshotCreated
    /\ clock = 3
    /\ Len(last.pre_snapshots) = 1
    /\ last.pre_snapshots[1].file_path = 1
    /\ last.pre_snapshots[1].timestamp = 2
    /\ snapshots[2].file_path = 2

\* the last call was one of the two analytic operations
Analysed == last.call \in {"validate_and_parse", "validate_command"}

\* C35: validate_and_parse and validate_command leave the document, the
\* retained snapshots, the permission level, the rule catalog and the
\* execution history as they were before the call
C35_AnalysisReadOnly ==
    Analysed =>
        /\ document = last.pre_document
        /\ snapshots = last.pre_snapshots
        /\ current_permission = last.pre_permission
        /\ rules = last.pre_rules
        /\ custom_rules = last.pre_custom_rules
        /\ execution_history = last.pre_history

\* C35 witness: a confirmed validate_command has returned in a session with
\* a document, a retained snapshot, a logged run and a disabled rule
C35_ValidatedInBusySession ==
    /\ last.call = "validate_command"
    /\ last.confirmed
    /\ last.validated.valid
    /\ is_loaded(document)
    /\ snapshots # <<>>
    /\ execution_history # <<>>
    /\ ~rules["require_delete_confirmation"]
    /\ current_permission = READ

\* the result validate_command gives for the command just validated, in the
\* same validator state, with the given confirmed flag: the result of the
\* call for the flag it was called with
VerdictWith(confirmed) ==
    IF last.confirmed = confirmed THEN last.safety
    ELSE validate_command(V, last.validated, confirmed)

\* C36: for a valid command and a fixed permission, rule enablement and
\* document, the blocking violations of the confirmed validation are among
\* those of the unconfirmed one, and a command safe unconfirmed is safe
\* confirmed
C36_ConfirmationNeverWorse ==
    Validated =>
        /\ Entries(VerdictWith(TRUE).violations)
               \subseteq Entries(VerdictWith(FALSE).violations)
        /\ VerdictWith(FALSE).safe => VerdictWith(TRUE).safe

\* C36 witness: a confirmed delete was found safe that is blocked when it is
\* not confirmed
C36_ConfirmationLiftsBlock ==
    /\ Validated
    /\ last.confirmed
    /\ last.safety.safe
    /\ ~VerdictWith(FALSE).safe

\* the summary of get_violations_summary has the heading BLOCKING VIOLATIONS
ReportsBlocking == get_violations_summary(violations).blocking > 0

\* C37 as stated: the result of validate_command is the one the command, the
\* flag, the permission, the rules and the document determine, whatever the
\* calls before it, and get_violations_summary after the call reports
\* blocking violations exactly when the call returned safe=false
C37_SummaryMatchesVerdict ==
    SafetyChecked =>
        /\ last.safety = validate_command(V, last.validated, last.confirmed)
        /\ ReportsBlocking <=> ~last.safety.safe

\* C37: a command that is not valid is returned safe=false with the
\* violation invalid_command, and the summary after the call is
\* "No safety violations"
C37_InvalidCommandNotSummarised ==
    /\ SafetyChecked
    /\ ~last.validated.valid
    /\ ~last.safety.safe
    /\ last.safety.violations = << InvalidCommandViolation >>
    /\ get_violations_summary(violations).none
    /\ is_loaded(document)
    /\ snapshots # <<>>

\* execute_command was called on a command that was not a dry run, and
\* validate_command returned safe=false for it
RejectedLive ==
    /\ CommandDone
    /\ ~last.dry_run
    /\ last.safety_called
    /\ ~last.safety.safe

\* C38 as stated: a command that is not a dry run and that validate_command
\* rejects leaves the document, the permission level, the execution history
\* and the retained snapshots as they were before execute_command
C38_RejectedCommandChangesNothing ==
    RejectedLive =>
        /\ document = last.pre_document
        /\ current_permission = last.pre_permission
        /\ execution_history = last.pre_history
        /\ snapshots = last.pre_snapshots

\* C38: a rejected command has left the document, the permission level and
\* the history alone and has added the snapshot "Before: ..." to the
\* retained list
C38_RejectedCommandLeavesSnapshot ==
    /\ RejectedLive
    /\ ~last.executor_called
    /\ document = last.pre_document
    /\ current_permission = last.pre_permission
    /\ execution_history = last.pre_history
    /\ last.snapshot_called
    /\ last.snapshot_returned
    /\ Len(snapshots) = Len(last.pre_snapshots) + 1
    /\ snapshots[Len(snapshots)].saved = document

\* C39 as stated: every entry of get_snapshot_history has an operation_count
\* equal to its index, the index rollback_to_snapshot restores it by
C39_OperationCountIsIndex ==
    \A i \in 1..Len(snapshots) :
        /\ get_snapshot_history(RM)[i].operation_count
              = get_snapshot_history(RM)[i].index
        /\ Position(Len(snapshots), get_snapshot_history(RM)[i].operation_count)
              = i

\* C39: create_snapshot on a full list has evicted the oldest snapshot, and
\* the snapshot now first in the list, restored by index 0, reports the
\* operation_count 1 it was created with
C39_EvictionShiftsIndex ==
    /\ SnapshotCreated
    /\ Len(last.pre_snapshots) = max_snapshots
    /\ snapshots[1] = last.pre_snapshots[2]
    /\ get_snapshot_history(RM)[1].index = 0
    /\ get_snapshot_history(RM)[1].operation_count = 1
    /\ get_snapshot_history(RM)[Len(snapshots)].operation_count = max_snapshots
====
